---- MODULE Spec2Model ----
(***************************************************************************)
(* A model of the schema-to-Go-type compiler of pkg/codegen: the naming    *)
(* and ordering utilities of utils.go and the structural schema compiler   *)
(* of schema.go.                                                           *)
(*                                                                         *)
(* A Go string is a sequence of runes; a rune is a one-character TLA+      *)
(* string, except for the named non-ASCII runes below.  Text that the      *)
(* code assembles from literals (such as "interface{}") is kept as a       *)
(* sequence whose elements are those literals.                             *)
(***************************************************************************)
EXTENDS Integers, Sequences, FiniteSets, TLC

VARIABLES
  pc,            \* position of the call in progress: "start", "loop", "done"
  dict,          \* SortedSchemaKeys: the key set of the map argument
  keys,          \* SortedSchemaKeys: the keys slice (map iteration order, then sorted)
  refPath,       \* RefPathToGoType: the argument
  importMapping, \* the package's import mapping: document |-> import alias
  refOut,        \* RefPathToGoType: the returned (string, error)
  str,           \* SanitizeGoIdentity: the argument
  identOut,      \* SanitizeGoIdentity: the returned string, or the panic
  enumNames,     \* SanitizeEnumNames: the argument
  deDup,         \* SanitizeEnumNames: the de-duplicated names
  enumIdx,       \* SanitizeEnumNames: position of the second loop in deDup
  dupCheck,      \* SanitizeEnumNames: sanitized name |-> times seen
  sanitizedDeDup,\* SanitizeEnumNames: the returned map
  lastKey,       \* SanitizeEnumNames: the map key the last iteration wrote
  Properties,    \* Schema.Properties of the receiver of AddProperty
  addArg,        \* AddProperty: the argument of the last call
  addErr,        \* AddProperty: the error of the last call ("" for nil)
  sref,          \* GenerateGoSchema: the SchemaRef argument
  path,          \* GenerateGoSchema: the path argument (a slice: elements and capacity)
  genOut,        \* GenerateGoSchema: the returned (Schema, error) and the caller's path after it
  schemaName,    \* SchemaNameToTypeName: the argument
  typeNameOut,   \* SchemaNameToTypeName: the returned string
  formatArg,     \* resolveGoType: the argument f
  typeArg,       \* resolveGoType: the argument t
  goTypeOut      \* resolveGoType: the returned (string, error)

vars == << pc, dict, keys, refPath, importMapping, refOut, str, identOut,
           enumNames, deDup, enumIdx, dupCheck, sanitizedDeDup, lastKey,
           Properties, addArg, addErr, sref, path, genOut,
           schemaName, typeNameOut, formatArg, typeArg, goTypeOut >>

(***************************************************************************)
(* Runes and strings                                                       *)
(***************************************************************************)

\* The printable ASCII runes in code order: Ascii[i] has code 31 + i (the
\* grave accent, code 96, is written by name).
Ascii ==
  << " ", "!", "\"", "#", "$", "%", "&", "'", "(", ")", "*", "+",
     ",", "-", ".", "/", "0", "1", "2", "3", "4", "5", "6", "7",
     "8", "9", ":", ";", "<", "=", ">", "?", "@", "A", "B", "C",
     "D", "E", "F", "G", "H", "I", "J", "K", "L", "M", "N", "O",
     "P", "Q", "R", "S", "T", "U", "V", "W", "X", "Y", "Z", "[",
     "\\", "]", "^", "_", "U+0060", "a", "b", "c", "d", "e", "f", "g",
     "h", "i", "j", "k", "l", "m", "n", "o", "p", "q", "r", "s",
     "t", "u", "v", "w", "x", "y", "z", "{", "|", "}", "~" >>

LowerLetters == << "a", "b", "c", "d", "e", "f", "g", "h", "i", "j", "k", "l", "m", "n", "o", "p", "q", "r", "s", "t", "u", "v", "w", "x", "y", "z" >>

UpperLetters == << "A", "B", "C", "D", "E", "F", "G", "H", "I", "J", "K", "L", "M", "N", "O", "P", "Q", "R", "S", "T", "U", "V", "W", "X", "Y", "Z" >>

Digits == << "0", "1", "2", "3", "4", "5", "6", "7", "8", "9" >>

\* Non-ASCII runes, by name: U+00B2 SUPERSCRIPT TWO (category No: a number
\* that is not a decimal digit) and U+00E9 (a lower-case letter).
SuperscriptTwo == "U+00B2"

Range(s) == { s[i] : i \in DOMAIN s }

IndexOf(s, r) == CHOOSE i \in DOMAIN s : s[i] = r

\* The byte value of an ASCII rune.
Ord(r) == 31 + IndexOf(Ascii, r)

\* unicode.IsUpper, unicode.IsLower, unicode.IsDigit, unicode.IsLetter and
\* unicode.IsNumber on the runes of the model.
IsUpper(r) == r \in Range(UpperLetters)

IsLower(r) == r \in Range(LowerLetters)

IsDigit(r) == r \in Range(Digits)

IsLetter(r) == IsUpper(r) \/ IsLower(r)

IsNumber(r) == IsDigit(r) \/ r = SuperscriptTwo

\* unicode.ToUpper and unicode.ToLower.
ToUpperRune(r) == IF IsLower(r) THEN UpperLetters[IndexOf(LowerLetters, r)] ELSE r

ToLowerRune(r) == IF IsUpper(r) THEN LowerLetters[IndexOf(UpperLetters, r)] ELSE r

\* strings.ToUpper and strings.ToLower.
ToUpper(s) == [i \in DOMAIN s |-> ToUpperRune(s[i])]

ToLower(s) == [i \in DOMAIN s |-> ToLowerRune(s[i])]

\* strings.EqualFold on ASCII strings.
EqualFold(s, t) == ToLower(s) = ToLower(t)

\* The Go operator < on strings: byte-wise lexicographic order.
RECURSIVE StrLess(_, _)
StrLess(s, t) ==
  IF t = << >> THEN FALSE
  ELSE IF s = << >> THEN TRUE
  ELSE IF s[1] # t[1] THEN Ord(s[1]) < Ord(t[1])
  ELSE StrLess(Tail(s), Tail(t))

\* strings.HasSuffix-like slice s[len(s)-n:].
LastN(s, n) == SubSeq(s, Len(s) - n + 1, Len(s))

\* strings.ContainsRune / strings.ContainsAny.
ContainsAny(s, chars) == \E i \in DOMAIN s : s[i] \in chars

\* strings.Split(s, sep) for a one-rune separator: the pieces between the
\* separators, len = number of separators + 1.
RECURSIVE Split(_, _)
Split(s, sep) ==
  IF \A i \in DOMAIN s : s[i] # sep THEN << s >>
  ELSE LET k == CHOOSE i \in DOMAIN s : s[i] = sep /\ \A j \in 1..(i - 1) : s[j] # sep
       IN  << SubSeq(s, 1, k - 1) >> \o Split(SubSeq(s, k + 1, Len(s)), sep)

\* strings.Join(elems, sep).
RECURSIVE Join(_, _)
Join(elems, sep) ==
  IF elems = << >> THEN << >>
  ELSE IF Len(elems) = 1 THEN elems[1]
  ELSE elems[1] \o sep \o Join(Tail(elems), sep)

\* All sequences over S of length at most n.
SeqsUpTo(S, n) == UNION { [1..k -> S] : k \in 0..n }

\* All enumerations (orders without repetition) of the finite set S.
Perms(S) == { p \in [1..Cardinality(S) -> S] : \A i, j \in DOMAIN p : p[i] = p[j] => i = j }

(***************************************************************************)
(* Ordering utility: keySlice.Less and SortedSchemaKeys (utils.go)         *)
(***************************************************************************)

\* The largest map SortedSchemaKeys is given.
MaxKeys == 3

\* The keys the maps are built from.
KeyPool ==
  { << "i", "d" >>, << "I", "D" >>,
    << "z", "z" >>, << "k", "e", "y" >>, << "n", "a", "m", "e" >>,
    << "_", "a", "t" >>, << "b", "_", "a", "t" >>,
    << "c", "r", "e", "a", "t", "e", "d", "_", "a", "t" >>,
    << "u", "p", "d", "a", "t", "e", "d", "_", "a", "t" >> }

\* keySlice.Less(i, j), on iKey = keys[i] and jKey = keys[j].
Less(iKey, jKey) ==
  IF EqualFold(iKey, << "i", "d" >>) THEN TRUE
  ELSE IF EqualFold(jKey, << "i", "d" >>) THEN FALSE
  ELSE IF Len(iKey) <= 3 \/ Len(jKey) <= 3 THEN StrLess(iKey, jKey)
  ELSE LET iAt == LastN(iKey, 3) = << "_", "a", "t" >>
           jAt == LastN(jKey, 3) = << "_", "a", "t" >>
       IN  IF iAt /\ jAt THEN StrLess(iKey, jKey)
           ELSE IF iAt THEN FALSE
           ELSE IF jAt THEN TRUE
           ELSE StrLess(iKey, jKey)

\* keySlice.Swap(i, j).
Swap(data, i, j) == [data EXCEPT ![i] = data[j], ![j] = data[i]]

\* sort.Stable on a keySlice shorter than the library's block size: one
\* insertion sort, whose inner loop moves data[j] down while Less(j, j-1).
RECURSIVE InsertDown(_, _)
InsertDown(data, j) ==
  IF j > 1 /\ Less(data[j], data[j - 1])
  THEN InsertDown(Swap(data, j, j - 1), j - 1)
  ELSE data

RECURSIVE InsertionSort(_, _)
InsertionSort(data, i) ==
  IF i <= Len(data) THEN InsertionSort(InsertDown(data, i), i + 1) ELSE data

Stable(data) == InsertionSort(data, 2)

\* SortedSchemaKeys(dict), where order is the order in which the range
\* loop enumerates the keys of dict.
SortedSchemaKeys(order) == Stable(order)

SortIdle == dict = {} /\ keys = << >>

RefIdle == refPath = << >> /\ importMapping = << >> /\ refOut = << >>

IdentIdle == str = << >> /\ identOut = << >>

EnumIdle ==
  /\ enumNames = << >> /\ deDup = << >> /\ enumIdx = 0
  /\ dupCheck = << >> /\ sanitizedDeDup = << >> /\ lastKey = << >>

PropsIdle == Properties = << >> /\ addArg = << >> /\ addErr = << >>

GenIdle == sref = << >> /\ path = << >> /\ genOut = << >>

sortVars == << dict, keys >>

refVars == << refPath, importMapping, refOut >>

identVars == << str, identOut >>

enumVars == << enumNames, deDup, enumIdx, dupCheck, sanitizedDeDup, lastKey >>

propsVars == << Properties, addArg, addErr >>

genVars == << sref, path, genOut >>

NameIdle == schemaName = << >> /\ typeNameOut = << >>

TypeIdle == formatArg = "" /\ typeArg = "" /\ goTypeOut = << >>

nameVars == << schemaName, typeNameOut >>

typeVars == << formatArg, typeArg, goTypeOut >>

InitSort ==
  /\ pc = "start"
  /\ dict \in { d \in SUBSET KeyPool : Cardinality(d) <= MaxKeys }
  /\ keys = << >>
  /\ RefIdle /\ IdentIdle /\ EnumIdle /\ PropsIdle /\ GenIdle /\ NameIdle /\ TypeIdle

\* One call of SortedSchemaKeys: the range loop fills keys in the map's
\* iteration order, which the runtime chooses, and sort.Stable sorts them.
CallSortedSchemaKeys ==
  /\ pc = "start"
  /\ \E order \in Perms(dict) : keys' = SortedSchemaKeys(order)
  /\ pc' = "done"
  /\ UNCHANGED << dict, refVars, identVars, enumVars, propsVars, genVars, nameVars, typeVars >>

NextSort == CallSortedSchemaKeys

SpecSort == InitSort /\ [][NextSort]_vars

\* Whether key ends in the suffix _at.
EndsInAt(key) == Len(key) >= 3 /\ LastN(key, 3) = << "_", "a", "t" >>

IsId(key) == EqualFold(key, << "i", "d" >>)

\* C4: the sorted key sequence does not depend on the order in which the
\* map's keys were enumerated: every enumeration of the same key set sorts
\* to the sequence this call returned.
C4_SortedKeysDeterministic ==
  pc = "done" => \A order \in Perms(dict) : SortedSchemaKeys(order) = keys

\* C5: Less is a strict total order on the distinct keys of the map: of
\* two distinct keys exactly one is less than the other, and Less is
\* transitive.
C5_LessStrictTotalOrder ==
  pc = "done" =>
    /\ \A a, b \in dict : a # b => (Less(a, b) <=> ~Less(b, a))
    /\ \A a, b, c \in dict : Less(a, b) /\ Less(b, c) => Less(a, c)

\* C6: in the sorted keys a key equal to "id" (ignoring case) is first;
\* among the other keys every key ending in _at follows every key that does
\* not, whatever the keys' lengths; and each of the two groups is in
\* byte-wise lexicographic order.
C6_IdFirstAtLast ==
  pc = "done" =>
    /\ (\E k \in dict : IsId(k)) => IsId(keys[1])
    /\ \A i, j \in DOMAIN keys :
         (i < j /\ ~IsId(keys[i]) /\ ~IsId(keys[j])) =>
           /\ ~(EndsInAt(keys[i]) /\ ~EndsInAt(keys[j]))
           /\ (EndsInAt(keys[i]) = EndsInAt(keys[j])) => StrLess(keys[i], keys[j])

(***************************************************************************)
(* Naming transform: toCamelorPascalCase, fixCamelCaseAbbrev,              *)
(* typeNamePrefix, SchemaNameToTypeName (utils.go)                         *)
(***************************************************************************)

\* The separators of toCamelorPascalCase: "-#@!$&=.+:;_~ (){}[]".
separators ==
  { "-", "#", "@", "!", "$", "&", "=", ".", "+", ":", ";", "_", "~", " ",
    "(", ")", "{", "}", "[", "]" }

\* strings.Trim(s, " ").
RECURSIVE TrimSpaces(_)
TrimSpaces(s) ==
  IF s = << >> THEN s
  ELSE IF s[1] = " " THEN TrimSpaces(Tail(s))
  ELSE IF s[Len(s)] = " " THEN TrimSpaces(SubSeq(s, 1, Len(s) - 1))
  ELSE s

\* commonInitialisms, each entry << the word the pattern begins with, the
\* replacement >>: the pattern is the word followed by ([^a-z]+|$).
commonInitialisms ==
  << << << "A", "c", "l" >>, << "A", "C", "L" >> >>,
     << << "A", "p", "i" >>, << "A", "P", "I" >> >>,
     << << "A", "s", "c", "i", "i" >>, << "A", "S", "C", "I", "I" >> >>,
     << << "C", "p", "u" >>, << "C", "P", "U" >> >>,
     << << "C", "s", "s" >>, << "C", "S", "S" >> >>,
     << << "D", "n", "s" >>, << "D", "N", "S" >> >>,
     << << "E", "o", "f" >>, << "E", "O", "F" >> >>,
     << << "G", "u", "i", "d" >>, << "G", "U", "I", "D" >> >>,
     << << "H", "t", "m", "l" >>, << "H", "T", "M", "L" >> >>,
     << << "H", "t", "t", "p" >>, << "H", "T", "T", "P" >> >>,
     << << "H", "t", "t", "p", "s" >>, << "H", "T", "T", "P", "S" >> >>,
     << << "I", "d" >>, << "I", "D" >> >>,
     << << "I", "p" >>, << "I", "P" >> >>,
     << << "J", "s", "o", "n" >>, << "J", "S", "O", "N" >> >>,
     << << "L", "h", "s" >>, << "L", "H", "S" >> >>,
     << << "Q", "p", "s" >>, << "Q", "P", "S" >> >>,
     << << "R", "a", "m" >>, << "R", "A", "M" >> >>,
     << << "R", "h", "s" >>, << "R", "H", "S" >> >>,
     << << "R", "p", "c" >>, << "R", "P", "C" >> >>,
     << << "S", "l", "a" >>, << "S", "L", "A" >> >>,
     << << "S", "m", "t", "p" >>, << "S", "M", "T", "P" >> >>,
     << << "S", "q", "l" >>, << "S", "Q", "L" >> >>,
     << << "S", "s", "h" >>, << "S", "S", "H" >> >>,
     << << "T", "c", "p" >>, << "T", "C", "P" >> >>,
     << << "T", "l", "s" >>, << "T", "L", "S" >> >>,
     << << "T", "t", "l" >>, << "T", "T", "L" >> >>,
     << << "U", "d", "p" >>, << "U", "D", "P" >> >>,
     << << "U", "i" >>, << "U", "I" >> >>,
     << << "U", "i", "d" >>, << "U", "I", "D" >> >>,
     << << "U", "u", "i", "d" >>, << "U", "U", "I", "D" >> >>,
     << << "U", "r", "i" >>, << "U", "R", "I" >> >>,
     << << "U", "r", "l" >>, << "U", "R", "L" >> >>,
     << << "U", "t" >>, << "U", "T", "F", "8" >> >>,
     << << "V", "m" >>, << "V", "M" >> >>,
     << << "X", "m", "l" >>, << "X", "M", "L" >> >>,
     << << "X", "m", "p", "p" >>, << "X", "M", "P", "P" >> >>,
     << << "X", "s", "r", "f" >>, << "X", "S", "R", "F" >> >>,
     << << "X", "s", "s" >>, << "X", "S", "S" >> >>,
     << << "O", "a", "u", "t", "h" >>, << "O", "A", "u", "t", "h" >> >>,
     << << "O", "f", "a", "c" >>, << "O", "F", "A", "C" >> >>,
     << << "N", "a", "s", "a" >>, << "N", "A", "S", "A" >> >>,
     << << "U", "s", "d" >>, << "U", "S", "D" >> >>,
     << << "E", "u", "r" >>, << "E", "U", "R" >> >>,
     << << "B", "t", "c" >>, << "B", "T", "C" >> >>,
     << << "E", "t", "h" >>, << "E", "T", "H" >> >>,
     << << "P", "d", "f" >>, << "P", "D", "F" >> >>,
     << << "P", "d", "f", "4", "1", "7" >>, << "P", "D", "F", "4", "1", "7" >> >>,
     << << "S", "s", "n" >>, << "S", "S", "N" >> >>,
     << << "S", "m", "s" >>, << "S", "M", "S" >> >> >>

\* The length of the run of runes other than a-z that starts at s[i].
RECURSIVE NonLowerRun(_, _)
NonLowerRun(s, i) ==
  IF i <= Len(s) /\ ~IsLower(s[i]) THEN 1 + NonLowerRun(s, i + 1) ELSE 0

\* re.ReplaceAllString(s, rep + "$1") for the pattern word([^a-z]+|$),
\* scanning from s[i]: a match is the word followed by the longest run of
\* runes other than a-z, or by the end of s; the run is kept.
RECURSIVE ReplaceAllFrom(_, _, _, _)
ReplaceAllFrom(s, i, word, rep) ==
  IF i > Len(s) THEN << >>
  ELSE LET e   == i + Len(word)
           hit == /\ e - 1 <= Len(s)
                  /\ SubSeq(s, i, e - 1) = word
                  /\ (e > Len(s) \/ ~IsLower(s[e]))
           run == NonLowerRun(s, e)
       IN  IF hit
           THEN rep \o SubSeq(s, e, e + run - 1) \o ReplaceAllFrom(s, e + run, word, rep)
           ELSE << s[i] >> \o ReplaceAllFrom(s, i + 1, word, rep)

ReplaceAllString(s, word, rep) == ReplaceAllFrom(s, 1, word, rep)

\* fixCamelCaseAbbrev: every pattern of commonInitialisms applied in turn
\* (a pattern whose first rune is not in s matches nowhere).  The code
\* ranges over a map; no replacement creates or removes a match of another
\* pattern, so the order does not change the result.
RECURSIVE fixFrom(_, _)
fixFrom(s, k) ==
  IF k > Len(commonInitialisms) THEN s
  ELSE IF commonInitialisms[k][1][1] \notin Range(s) THEN fixFrom(s, k + 1)
  ELSE fixFrom(ReplaceAllString(s, commonInitialisms[k][1], commonInitialisms[k][2]), k + 1)

fixCamelCaseAbbrev(s) == fixFrom(s, 1)

\* The loop of toCamelorPascalCase over the runes of s from s[i], n the
\* string built so far.
RECURSIVE caseLoop(_, _, _, _)
caseLoop(s, i, n, capNext) ==
  IF i > Len(s) THEN n
  ELSE LET v  == s[i]
           n1 == IF IsUpper(v) THEN Append(n, v) ELSE n
           n2 == IF IsDigit(v) THEN Append(n1, v) ELSE n1
           n3 == IF IsLower(v)
                 THEN (IF capNext THEN Append(n2, ToUpperRune(v)) ELSE Append(n2, v))
                 ELSE n2
       IN  caseLoop(s, i + 1, n3, v \in separators)

toCamelorPascalCase(s, capFirst) ==
  fixCamelCaseAbbrev(caseLoop(TrimSpaces(s), 1, << >>, capFirst))

ToPascalCase(s) == toCamelorPascalCase(s, TRUE)

ToCamelCase(s) == toCamelorPascalCase(s, FALSE)

\* The words typeNamePrefix spells the leading symbols of a name with.
PrefixWord(r) ==
  CASE r = "-" -> << "M", "i", "n", "u", "s" >>
    [] r = "+" -> << "P", "l", "u", "s" >>
    [] r = "&" -> << "A", "n", "d" >>
    [] r = "~" -> << "T", "i", "l", "d", "e" >>
    [] r = "=" -> << "E", "q", "u", "a", "l" >>
    [] r = "#" -> << "H", "a", "s", "h" >>
    [] r = "." -> << "D", "o", "t" >>

\* The loop of typeNamePrefix over the runes of name from name[i].
RECURSIVE prefixLoop(_, _, _)
prefixLoop(name, i, prefix) ==
  IF i > Len(name) THEN prefix
  ELSE LET r == name[i]
       IN  IF r = "$"
           THEN (IF Len(name) = 1
                 THEN << "D", "o", "l", "l", "a", "r", "S", "i", "g", "n" >>
                 ELSE prefixLoop(name, i + 1, prefix))
           ELSE IF r \in { "-", "+", "&", "~", "=", "#", "." }
           THEN prefixLoop(name, i + 1, prefix \o PrefixWord(r))
           ELSE IF prefix = << >> /\ IsDigit(r) THEN << "N" >>
           ELSE prefix

typeNamePrefix(name) == prefixLoop(name, 1, << >>)

SchemaNameToTypeName(name) == typeNamePrefix(name) \o ToPascalCase(name)

\* strings.ReplaceAll(s, "_", "-").
ReplaceUnderscores(s) == [i \in DOMAIN s |-> IF s[i] = "_" THEN "-" ELSE s[i]]

SchemaNameToEnumValueName(name) ==
  typeNamePrefix(name) \o ToPascalCase(ReplaceUnderscores(name))

(***************************************************************************)
(* Reference resolver: RefPathToGoType (utils.go)                          *)
(***************************************************************************)

\* The longest reference path tried.
MaxRefLen == 6

\* The runes reference paths are built from.
RefAlphabet == { "#", "/", "i", "d" }

\* The import mappings tried: document |-> the Name of its goImport.
ImportMappings ==
  { << >>,
    << "d" >> :> << "e", "x", "t" >>,
    (<< "d" >> :> << "e", "x", "t" >>) @@ (<< "d", "/", "i" >> :> << "p", "k", "g" >>) }

\* A returned (string, error): err is "" for nil, else the message's kind.
Ok(val) == [val |-> val, err |-> ""]

Err(kind) == [val |-> << >>, err |-> kind]

\* refPathToGoType(refPath, local), with the import mapping imports.  An
\* empty refPath makes refPath[0] panic.
RECURSIVE refPathToGoType(_, _, _)

\* refPathToGoType with the local flag ignored: depth 2 is accepted for a
\* local path as well.
refPathToGoType_DepthTwoLocal(rp, local, imports) ==
  IF rp = << >> THEN Err("panic: index out of range")
  ELSE IF rp[1] = "#"
  THEN LET pathParts == Split(rp, "/")
           depth     == Len(pathParts)
       IN  IF depth # 4 /\ depth # 2
           THEN Err("unexpected reference depth")
           ELSE Ok(SchemaNameToTypeName(pathParts[Len(pathParts)]))
  ELSE LET pathParts == Split(rp, "#")
       IN  IF Len(pathParts) # 2 THEN Err("unsupported reference")
           ELSE LET remoteComponent == pathParts[1]
                    flatComponent   == pathParts[2]
                IN  IF remoteComponent \notin DOMAIN imports
                    THEN Err("unrecognized external reference")
                    ELSE LET r == refPathToGoType(<< "#" >> \o flatComponent, FALSE, imports)
                         IN  IF r.err # "" THEN Err(r.err)
                             ELSE Ok(imports[remoteComponent] \o << "." >> \o r.val)

\* refPathToGoType failing open: a document that is not in the import
\* mapping resolves to the unqualified type name.
refPathToGoType_FailOpen(rp, local, imports) ==
  IF rp = << >> THEN Err("panic: index out of range")
  ELSE IF rp[1] = "#"
  THEN LET pathParts == Split(rp, "/")
           depth     == Len(pathParts)
       IN  IF local /\ depth # 4
           THEN Err("unexpected reference depth")
           ELSE IF ~local /\ depth # 4 /\ depth # 2
           THEN Err("unexpected reference depth")
           ELSE Ok(SchemaNameToTypeName(pathParts[Len(pathParts)]))
  ELSE LET pathParts == Split(rp, "#")
       IN  IF Len(pathParts) # 2 THEN Err("unsupported reference")
           ELSE LET remoteComponent == pathParts[1]
                    flatComponent   == pathParts[2]
                    r == refPathToGoType(<< "#" >> \o flatComponent, FALSE, imports)
                IN  IF r.err # "" THEN Err(r.err)
                    ELSE IF remoteComponent \notin DOMAIN imports THEN Ok(r.val)
                    ELSE Ok(imports[remoteComponent] \o << "." >> \o r.val)

\* refPathToGoType(refPath, local), as the code has it.
refPathToGoType(rp, local, imports) ==
  IF rp = << >> THEN Err("panic: index out of range")
  ELSE IF rp[1] = "#"
  THEN LET pathParts == Split(rp, "/")
           depth     == Len(pathParts)
       IN  IF local /\ depth # 4
           THEN Err("unexpected reference depth")
           ELSE IF ~local /\ depth # 4 /\ depth # 2
           THEN Err("unexpected reference depth")
           ELSE Ok(SchemaNameToTypeName(pathParts[Len(pathParts)]))
  ELSE LET pathParts == Split(rp, "#")
       IN  IF Len(pathParts) # 2 THEN Err("unsupported reference")
           ELSE LET remoteComponent == pathParts[1]
                    flatComponent   == pathParts[2]
                IN  IF remoteComponent \notin DOMAIN imports
                    THEN Err("unrecognized external reference")
                    ELSE LET r == refPathToGoType(<< "#" >> \o flatComponent, FALSE, imports)
                         IN  IF r.err # "" THEN Err(r.err)
                             ELSE Ok(imports[remoteComponent] \o << "." >> \o r.val)

RefPathToGoType(rp, imports) == refPathToGoType(rp, TRUE, imports)

InitRef ==
  /\ pc = "start"
  /\ refPath \in SeqsUpTo(RefAlphabet, MaxRefLen)
  /\ importMapping \in ImportMappings
  /\ refOut = << >>
  /\ SortIdle /\ IdentIdle /\ EnumIdle /\ PropsIdle /\ GenIdle /\ NameIdle /\ TypeIdle

\* One call of RefPathToGoType.
CallRefPathToGoType ==
  /\ pc = "start"
  /\ refOut' = RefPathToGoType(refPath, importMapping)
  /\ pc' = "done"
  /\ UNCHANGED << refPath, importMapping, sortVars, identVars, enumVars, propsVars, genVars, nameVars, typeVars >>

NextRef == CallRefPathToGoType

SpecRef == InitRef /\ [][NextRef]_vars

\* The number of occurrences of rune r in s.
Count(s, r) == Cardinality({ i \in DOMAIN s : s[i] = r })

\* The part of s after its last occurrence of r (all of s when there is none).
AfterLast(s, r) ==
  LET at == { i \in DOMAIN s : s[i] = r }
  IN  IF at = {} THEN s
      ELSE SubSeq(s, 1 + CHOOSE i \in at : \A j \in at : j <= i, Len(s))

\* The part of s before its first occurrence of r.
BeforeFirst(s, r) ==
  SubSeq(s, 1, (CHOOSE i \in DOMAIN s : s[i] = r /\ \A j \in 1 .. (i - 1) : s[j] # r) - 1)

\* C7: a local reference path (one that starts with '#') resolves exactly
\* when it has 4 segments between its '/' separators; the result is then
\* the type name of the final segment, and any other depth is the
\* malformed-reference (unexpected depth) error.
C7_LocalRefDepthFour ==
  (pc = "done" /\ refPath # << >> /\ refPath[1] = "#") =>
    /\ refOut.err = "" <=> Count(refPath, "/") + 1 = 4
    /\ refOut.err = "" => refOut.val = SchemaNameToTypeName(AfterLast(refPath, "/"))
    /\ refOut.err # "" => refOut.err = "unexpected reference depth"

\* A 4-segment local path whose final segment "id" resolved to "ID".
C7_Witness ==
  /\ pc = "done"
  /\ refPath = << "#", "/", "/", "/", "i", "d" >>
  /\ refOut = Ok(<< "I", "D" >>)

\* C8: a reference into another document, doc#localpath, is an error
\* whenever doc is not in the import mapping; when doc is mapped (and the
\* path holds the one '#') it resolves exactly when "#localpath" has 2 or 4
\* segments, to the mapped alias, a dot, and the type name of the final
\* segment.
C8_RemoteRefFailsClosed ==
  (pc = "done" /\ refPath # << >> /\ refPath[1] # "#" /\ Count(refPath, "#") >= 1) =>
    LET doc   == BeforeFirst(refPath, "#")
        local == SubSeq(refPath, Len(doc) + 1, Len(refPath))
        depth == Count(local, "/") + 1
    IN  /\ doc \notin DOMAIN importMapping => refOut.err # ""
        /\ (doc \in DOMAIN importMapping /\ Count(refPath, "#") = 1) =>
             /\ refOut.err = "" <=> depth \in { 2, 4 }
             /\ refOut.err = "" =>
                  refOut.val = importMapping[doc] \o << "." >>
                                 \o SchemaNameToTypeName(AfterLast(local, "/"))

\* A mapped document with a 2-segment local path resolved to alias.Type,
\* and an unmapped one was refused.
C8_Witness ==
  /\ pc = "done"
  /\ \/ /\ refPath = << "d", "#", "/", "i", "d" >>
        /\ << "d" >> \in DOMAIN importMapping
        /\ refOut = Ok(importMapping[<< "d" >>] \o << ".", "I", "D" >>)
     \/ /\ refPath = << "d", "#", "/", "/", "/", "i" >>
        /\ << "d" >> \in DOMAIN importMapping
        /\ refOut.err = ""

(***************************************************************************)
(* Identifier sanitizer: IsGoKeyword, IsPredeclaredGoIdentifier,           *)
(* IsValidGoIdentity, SanitizeGoIdentity (utils.go)                        *)
(***************************************************************************)

\* The longest string built from IdentAlphabet.
MaxIdentLen == 3

\* A lower-case letter, a decimal digit, the underscore, a symbol, and a
\* number that is not a decimal digit.
IdentAlphabet == { "g", "o", "1", "_", "-", SuperscriptTwo }

keywords ==
  { << "b", "r", "e", "a", "k" >>, << "c", "a", "s", "e" >>, << "c", "h", "a", "n" >>,
    << "c", "o", "n", "s", "t" >>, << "c", "o", "n", "t", "i", "n", "u", "e" >>,
    << "d", "e", "f", "a", "u", "l", "t" >>, << "d", "e", "f", "e", "r" >>,
    << "e", "l", "s", "e" >>, << "f", "a", "l", "l", "t", "h", "r", "o", "u", "g", "h" >>,
    << "f", "o", "r" >>, << "f", "u", "n", "c" >>, << "g", "o" >>, << "g", "o", "t", "o" >>,
    << "i", "f" >>, << "i", "m", "p", "o", "r", "t" >>, << "i", "n", "t", "e", "r", "f", "a", "c", "e" >>,
    << "m", "a", "p" >>, << "p", "a", "c", "k", "a", "g", "e" >>, << "r", "a", "n", "g", "e" >>,
    << "r", "e", "t", "u", "r", "n" >>, << "s", "e", "l", "e", "c", "t" >>,
    << "s", "t", "r", "u", "c", "t" >>, << "s", "w", "i", "t", "c", "h" >>,
    << "t", "y", "p", "e" >>, << "v", "a", "r" >> }

predeclaredIdentifiers ==
  { << "b", "o", "o", "l" >>, << "b", "y", "t", "e" >>, << "c", "o", "m", "p", "l", "e", "x", "6", "4" >>,
    << "c", "o", "m", "p", "l", "e", "x", "1", "2", "8" >>, << "e", "r", "r", "o", "r" >>,
    << "f", "l", "o", "a", "t", "3", "2" >>, << "f", "l", "o", "a", "t", "6", "4" >>,
    << "i", "n", "t" >>, << "i", "n", "t", "8" >>, << "i", "n", "t", "1", "6" >>,
    << "i", "n", "t", "3", "2" >>, << "i", "n", "t", "6", "4" >>, << "r", "u", "n", "e" >>,
    << "s", "t", "r", "i", "n", "g" >>, << "u", "i", "n", "t" >>, << "u", "i", "n", "t", "8" >>,
    << "u", "i", "n", "t", "1", "6" >>, << "u", "i", "n", "t", "3", "2" >>,
    << "u", "i", "n", "t", "6", "4" >>, << "u", "i", "n", "t", "p", "t", "r" >>,
    << "t", "r", "u", "e" >>, << "f", "a", "l", "s", "e" >>, << "i", "o", "t", "a" >>,
    << "n", "i", "l" >>, << "a", "p", "p", "e", "n", "d" >>, << "c", "a", "p" >>,
    << "c", "l", "o", "s", "e" >>, << "c", "o", "m", "p", "l", "e", "x" >>,
    << "c", "o", "p", "y" >>, << "d", "e", "l", "e", "t", "e" >>, << "i", "m", "a", "g" >>,
    << "l", "e", "n" >>, << "m", "a", "k", "e" >>, << "n", "e", "w" >>,
    << "p", "a", "n", "i", "c" >>, << "p", "r", "i", "n", "t" >>, << "p", "r", "i", "n", "t", "l", "n" >>,
    << "r", "e", "a", "l" >>, << "r", "e", "c", "o", "v", "e", "r" >> }

IsGoKeyword(s) == s \in keywords

IsPredeclaredGoIdentifier(s) == s \in predeclaredIdentifiers

\* isValidRuneForGoID(index, char), index counted from 0.
isValidRuneForGoID(index, char) ==
  IF index = 0 /\ IsNumber(char) THEN FALSE
  ELSE IsLetter(char) \/ char = "_" \/ IsNumber(char)

IsGoIdentity(s) ==
  IF \E i \in DOMAIN s : ~isValidRuneForGoID(i - 1, s[i]) THEN FALSE
  ELSE IsGoKeyword(s)

IsValidGoIdentity(s) ==
  IF IsGoIdentity(s) THEN FALSE ELSE ~IsPredeclaredGoIdentifier(s)

\* SanitizeGoIdentity(str): the returned string, or the panic.
SanitizeGoIdentity(s) ==
  LET sanitized == [i \in DOMAIN s |-> IF ~isValidRuneForGoID(i - 1, s[i]) THEN "_" ELSE s[i]]
      prefixed  == IF IsGoKeyword(sanitized) \/ IsPredeclaredGoIdentifier(sanitized)
                   THEN << "_" >> \o sanitized
                   ELSE sanitized
  IN  IF ~IsValidGoIdentity(prefixed) THEN Err("panic: here is a bug") ELSE Ok(prefixed)

InitIdent ==
  /\ pc = "start"
  /\ str \in SeqsUpTo(IdentAlphabet, MaxIdentLen) \cup keywords \cup predeclaredIdentifiers
  /\ identOut = << >>
  /\ SortIdle /\ RefIdle /\ EnumIdle /\ PropsIdle /\ GenIdle /\ NameIdle /\ TypeIdle

\* One call of SanitizeGoIdentity.
CallSanitizeGoIdentity ==
  /\ pc = "start"
  /\ identOut' = SanitizeGoIdentity(str)
  /\ pc' = "done"
  /\ UNCHANGED << str, sortVars, refVars, enumVars, propsVars, genVars, nameVars, typeVars >>

NextIdent == CallSanitizeGoIdentity

SpecIdent == InitIdent /\ [][NextIdent]_vars

\* C10: SanitizeGoIdentity never panics, and what it returns is neither a
\* keyword nor a predeclared identifier, holds only letters, decimal digits
\* and underscores, and does not begin with a digit.
C10_SanitizedIsValidIdentifier ==
  pc = "done" =>
    /\ identOut.err = ""
    /\ ~IsGoKeyword(identOut.val)
    /\ ~IsPredeclaredGoIdentifier(identOut.val)
    /\ \A i \in DOMAIN identOut.val :
         LET c == identOut.val[i] IN IsLetter(c) \/ IsDigit(c) \/ c = "_"
    /\ identOut.val # << >> => ~IsDigit(identOut.val[1])

(***************************************************************************)
(* Enum sanitizer: SanitizeEnumNames (utils.go)                            *)
(***************************************************************************)

\* The longest enum list tried.
MaxEnum == 3

\* The literals enum lists are built from.
EnumPool ==
  { << >>, << "a" >>, << "A" >>, << " ", "a" >>, << "a", "1" >>, << "a", "_", "b" >> }

\* strconv.Itoa(n) for n >= 0.
RECURSIVE Itoa(_)
Itoa(n) == IF n < 10 THEN << Digits[n + 1] >> ELSE Itoa(n \div 10) \o << Digits[(n % 10) + 1] >>

\* The first loop: the names without their repetitions, in the order of
\* first occurrence.
RECURSIVE DeDup(_, _, _)
DeDup(names, i, seen) ==
  IF i > Len(names) THEN << >>
  ELSE IF names[i] \in seen THEN DeDup(names, i + 1, seen)
  ELSE << names[i] >> \o DeDup(names, i + 1, seen \cup { names[i] })

\* The second loop: whether a name has an underscore, a hyphen or a space.
HasMultiWord(names) == \E i \in DOMAIN names : ContainsAny(names[i], { "_", "-", " " })

\* The identifier the third loop computes for name n.
Sanitized(n, hasMultiWord) ==
  SanitizeGoIdentity(SchemaNameToEnumValueName(IF hasMultiWord THEN ToLower(n) ELSE n))

\* The map key with the count of earlier names taken from 0.
EnumKey_ZeroBased(sanitized, dups) ==
  IF sanitized \notin DOMAIN dups THEN sanitized
  ELSE sanitized \o Itoa(dups[sanitized] - 1)

\* The map key the third loop stores name n under, given dupCheck.
EnumKey(sanitized, dups) ==
  IF sanitized \notin DOMAIN dups THEN sanitized
  ELSE sanitized \o Itoa(dups[sanitized])

\* dupCheck[sanitized]++.
Increment(dups, k) == (k :> (IF k \in DOMAIN dups THEN dups[k] + 1 ELSE 1)) @@ dups

\* m[k] = v.
MapSet(m, k, v) == (k :> v) @@ m

InitEnum ==
  /\ pc = "start"
  /\ enumNames \in SeqsUpTo(EnumPool, MaxEnum)
  /\ deDup = << >> /\ enumIdx = 0
  /\ dupCheck = << >> /\ sanitizedDeDup = << >> /\ lastKey = << >>
  /\ SortIdle /\ RefIdle /\ IdentIdle /\ PropsIdle /\ GenIdle /\ NameIdle /\ TypeIdle

enumFrame == << enumNames, sortVars, refVars, identVars, propsVars, genVars, nameVars, typeVars >>

\* SanitizeEnumNames up to its third loop: the names are de-duplicated and
\* the maps made.
EnumDeDup ==
  /\ pc = "start"
  /\ deDup' = DeDup(enumNames, 1, {})
  /\ enumIdx' = 0
  /\ dupCheck' = << >> /\ sanitizedDeDup' = << >> /\ lastKey' = << >>
  /\ pc' = "loop"
  /\ UNCHANGED enumFrame

\* One iteration of the third loop, on n = deDup[enumIdx + 1].
EnumSanitizeOne ==
  /\ pc = "loop"
  /\ enumIdx < Len(deDup)
  /\ LET n         == deDup[enumIdx + 1]
         sanitized == Sanitized(n, HasMultiWord(deDup))
     IN  IF sanitized.err # ""
         THEN /\ pc' = "panic"
              /\ UNCHANGED << enumIdx, dupCheck, sanitizedDeDup, lastKey >>
         ELSE /\ lastKey' = EnumKey(sanitized.val, dupCheck)
              /\ sanitizedDeDup' = MapSet(sanitizedDeDup, lastKey', n)
              /\ dupCheck' = Increment(dupCheck, sanitized.val)
              /\ enumIdx' = enumIdx + 1
              /\ pc' = "loop"
  /\ UNCHANGED << deDup, enumFrame >>

\* The loop is over: sanitizedDeDup is returned.
EnumReturn ==
  /\ pc = "loop"
  /\ enumIdx = Len(deDup)
  /\ pc' = "done"
  /\ UNCHANGED << deDup, enumIdx, dupCheck, sanitizedDeDup, lastKey, enumFrame >>

NextEnum == EnumDeDup \/ EnumSanitizeOne \/ EnumReturn

SpecEnum == InitEnum /\ [][NextEnum]_vars

\* The identifier of the i-th de-duplicated name, and the number of names
\* before it that have the same identifier.
Candidate(i) == Sanitized(deDup[i], HasMultiWord(deDup)).val

PriorSame(i) == Cardinality({ j \in 1 .. (i - 1) : Candidate(j) = Candidate(i) })

\* C9 as stated: the first name with an identifier is stored under it, and
\* a later name with the same identifier under the identifier followed by
\* the 0-based count of the collisions before it (0 for the first
\* colliding name, then 1, ...).
C9_SuffixZeroBased ==
  (pc = "loop" /\ enumIdx >= 1) =>
    /\ lastKey = (IF PriorSame(enumIdx) = 0 THEN Candidate(enumIdx)
                  ELSE Candidate(enumIdx) \o Itoa(PriorSame(enumIdx) - 1))
    /\ sanitizedDeDup[lastKey] = deDup[enumIdx]

\* C9 as amended: the first name with an identifier is stored under it, and
\* a later name with the same identifier under the identifier followed by
\* the number of names before it that had that identifier (1 for the first
\* colliding name, then 2, ...).
C9_SuffixCountsEarlierNames ==
  (pc = "loop" /\ enumIdx >= 1) =>
    /\ lastKey = (IF PriorSame(enumIdx) = 0 THEN Candidate(enumIdx)
                  ELSE Candidate(enumIdx) \o Itoa(PriorSame(enumIdx)))
    /\ sanitizedDeDup[lastKey] = deDup[enumIdx]

\* Three names with the identifier A: the third was stored under A2.
C9_Witness ==
  /\ pc = "loop"
  /\ enumIdx = 3
  /\ PriorSame(3) = 2
  /\ lastKey = << "A", "2" >>
  /\ sanitizedDeDup[<< "A", "1" >>] = deDup[2]
  /\ sanitizedDeDup[<< "A" >>] = deDup[1]

(***************************************************************************)
(* Schema, Property, AddProperty, PropertiesEqual (schema.go)              *)
(***************************************************************************)

\* The most properties a schema is grown to, and the most it starts with.
MaxProps == 3

MaxInitProps == 2

\* Schema.IsRef and Schema.TypeDecl.
IsRef(s) == s.RefType # << >>

TypeDecl(s) == IF IsRef(s) THEN s.RefType ELSE s.GoType

\* PropertiesEqual with the required flag left out of the comparison.
PropertiesEqual_IgnoreRequired(a, b) ==
  a.JsonFieldName = b.JsonFieldName /\ TypeDecl(a.Schema) = TypeDecl(b.Schema)

PropertiesEqual(a, b) ==
  /\ a.JsonFieldName = b.JsonFieldName
  /\ TypeDecl(a.Schema) = TypeDecl(b.Schema)
  /\ a.Required = b.Required

NoError == [kind |-> "", field |-> << >>]

\* Schema.AddProperty(p) on a schema whose Properties are props: the
\* Properties after the call and the returned error.
AddProperty(props, p) ==
  LET clash == { i \in DOMAIN props :
                   props[i].JsonFieldName = p.JsonFieldName /\ ~PropertiesEqual(props[i], p) }
  IN  IF clash # {}
      THEN [Properties |-> props,
            err |-> [kind  |-> "property already exists with a different type",
                     field |-> props[CHOOSE i \in clash : \A j \in clash : i <= j].JsonFieldName]]
      ELSE [Properties |-> Append(props, p), err |-> NoError]

\* The properties AddProperty is tried on: two names, both required flags,
\* and four schemas of which the last two render as the same type T.
PropSchemas ==
  { [GoType |-> << "string" >>, RefType |-> << >>],
    [GoType |-> << "int" >>, RefType |-> << >>],
    [GoType |-> << "struct {", "}" >>, RefType |-> << "T" >>],
    [GoType |-> << "int" >>, RefType |-> << "T" >>] }

PropSpace ==
  [JsonFieldName : { << "a" >>, << "b" >> }, Schema : PropSchemas, Required : BOOLEAN]

InitProps ==
  /\ pc = "start"
  /\ Properties \in SeqsUpTo(PropSpace, MaxInitProps)
  /\ addArg = << >>
  /\ addErr = NoError
  /\ SortIdle /\ RefIdle /\ IdentIdle /\ EnumIdle /\ GenIdle /\ NameIdle /\ TypeIdle

\* One call of s.AddProperty(p).
CallAddProperty ==
  /\ Len(Properties) < MaxProps
  /\ \E p \in PropSpace :
       LET r == AddProperty(Properties, p)
       IN  /\ Properties' = r.Properties
           /\ addErr' = r.err
           /\ addArg' = p
  /\ pc' = "done"
  /\ UNCHANGED << sortVars, refVars, identVars, enumVars, genVars, nameVars, typeVars >>

NextProps == CallAddProperty

SpecProps == InitProps /\ [][NextProps]_vars

\* Whether props holds a property named like p that differs from p in its
\* required flag or in its rendered type.
HasMismatch(props, p) ==
  \E i \in DOMAIN props :
    /\ props[i].JsonFieldName = p.JsonFieldName
    /\ \/ props[i].Required # p.Required
       \/ TypeDecl(props[i].Schema) # TypeDecl(p.Schema)

\* C2: a call of AddProperty(p) returns an error exactly when the schema
\* holds a property of p's name that differs from p in the required flag
\* or the rendered type; the error names that field, and the call
\* otherwise succeeds and appends p.
C2_AddPropertyErrorIffMismatch ==
  [][ /\ addErr'.kind # "" <=> HasMismatch(Properties, addArg')
      /\ addErr'.kind # "" => (addErr'.field = addArg'.JsonFieldName /\ Properties' = Properties)
      /\ addErr'.kind = "" => Properties' = Append(Properties, addArg') ]_vars

\* Both outcomes happen on a schema that holds a property of the name: an
\* equivalent property was added again, or a different one was refused.
C2_Witness ==
  /\ pc = "done"
  /\ \/ /\ addErr.kind # ""
        /\ addErr.field = << "a" >>
        /\ \E i \in DOMAIN Properties :
             Properties[i].JsonFieldName = << "a" >> /\ Properties[i].Required # addArg.Required
     \/ /\ addErr.kind = ""
        /\ Len(Properties) >= 2
        /\ \E i \in 1 .. (Len(Properties) - 1) :
             /\ PropertiesEqual(Properties[i], addArg)
             /\ Properties[i].Schema # addArg.Schema

(***************************************************************************)
(* Structural schema compiler: GenerateGoSchema and its helpers            *)
(* (schema.go).                                                            *)
(*                                                                         *)
(* An openapi3.Schema is a record; Type and Format are plain strings, all  *)
(* other text is a sequence of runes.  A nil pointer or slice is << >> and *)
(* a set one is a one-element sequence holding the value.  A SchemaRef is  *)
(* [Ref, Target, Inline]: an inline schema has Ref = << >> and its Value   *)
(* in Inline; a reference has the reference path in Ref and its Value is   *)
(* the component named Target, as the loader resolves it.                  *)
(*                                                                         *)
(* A (Schema, error) result is [s, err, e]: err is << >> for nil, else the *)
(* chain of messages from the outermost wrapper to the cause; e holds the  *)
(* elements of the caller's path slice after the call.  A path slice is    *)
(* [e, cap]: its elements and the capacity of its backing array.           *)
(***************************************************************************)

\* The zero openapi3.Schema.
NoSchema ==
  [Type |-> "", Format |-> "", Properties |-> << >>, Required |-> {},
   Items |-> << >>, Enum |-> << >>, AllOf |-> << >>, AnyOf |-> << >>,
   OneOf |-> << >>, AdditionalProperties |-> << >>,
   AdditionalPropertiesAllowed |-> << >>, Description |-> << >>,
   Nullable |-> FALSE, ReadOnly |-> FALSE, WriteOnly |-> FALSE,
   Extensions |-> << >>]

\* The zero Schema of schema.go.  (OAPISchema, the pointer back to the
\* input, is not kept: nothing in the compiler reads it.)
ZeroSchema ==
  [GoType |-> << >>, RefType |-> << >>, RefGoType |-> << >>,
   ArrayType |-> << >>, EnumValues |-> << >>, Properties |-> << >>,
   HasAdditionalProperties |-> FALSE, AdditionalPropertiesType |-> << >>,
   AdditionalTypes |-> << >>, SkipOptionalPointer |-> FALSE,
   Description |-> << >>]

\* A nil error, an error, and an error wrapped with a message.
Nil == << >>

Wrap(msg, err) == << msg >> \o err

StackOverflow == << "fatal error: stack overflow" >>

\* StringToGoComment on a one-line string.
StringToGoComment(in) ==
  IF in = << >> \/ \A i \in DOMAIN in : in[i] = " " THEN << >>
  ELSE << "// " >> \o in

\* SchemaHasAdditionalProperties.
SchemaHasAdditionalProperties(schema) ==
  IF schema.AdditionalPropertiesAllowed # << >> /\ schema.AdditionalPropertiesAllowed[1]
  THEN TRUE
  ELSE schema.AdditionalProperties # << >>

\* StringInArray.
StringInArray(s, array) == s \in array

\* IsWholeDocumentReference and IsGoTypeReference.
IsWholeDocumentReference(ref) == ref # << >> /\ ~ContainsAny(ref, { "#" })

IsGoTypeReference(ref) == ref # << >> /\ ~IsWholeDocumentReference(ref)

\* The elements of path after PathToTypeName(path) has rewritten them, and
\* the name it returns.
PascalAll(elems) == [i \in DOMAIN elems |-> ToPascalCase(elems[i])]

PathToTypeName(elems) == Join(PascalAll(elems), << "_" >>)

\* The capacity append gives a full slice of capacity cap that grows by one
\* element: the runtime doubles a small slice.
GrowCap(cap) == IF cap = 0 THEN 1 ELSE 2 * cap

\* append(path, elem): the new slice, and whether it shares path's array.
Shares(pth) == pth.cap > Len(pth.e)

AppendPath(pth, elem) ==
  [e |-> Append(pth.e, elem), cap |-> IF Shares(pth) THEN pth.cap ELSE GrowCap(pth.cap)]

\* What the caller's path holds after the slice made by append(path, elem)
\* has come to hold the elements longer.
Written(pth, longer) ==
  [pth EXCEPT !.e = IF Shares(pth) THEN SubSeq(longer, 1, Len(pth.e)) ELSE pth.e]

\* resolveGoType with every format accepted for a boolean.
resolveGoType_AnyBoolean(f, t) ==
  CASE t = "array" -> [val |-> << "array" >>, err |-> Nil]
    [] t = "integer" ->
         IF f \in { "int64", "int32", "int16", "int8", "int",
                    "uint64", "uint32", "uint16", "uint8", "uint" }
         THEN [val |-> << f >>, err |-> Nil]
         ELSE IF f = "" THEN [val |-> << "int" >>, err |-> Nil]
         ELSE [val |-> << >>, err |-> << "invalid integer format" >>]
    [] t = "number" ->
         IF f = "double" THEN [val |-> << "float64" >>, err |-> Nil]
         ELSE IF f \in { "float", "" } THEN [val |-> << "float32" >>, err |-> Nil]
         ELSE [val |-> << >>, err |-> << "invalid number format" >>]
    [] t = "boolean" ->
         [val |-> << "bool" >>, err |-> Nil]
    [] t = "string" ->
         CASE f = "byte" -> [val |-> << "[]byte" >>, err |-> Nil]
           [] f = "email" -> [val |-> << "openapi_types.Email" >>, err |-> Nil]
           [] f = "date" -> [val |-> << "openapi_types.Date" >>, err |-> Nil]
           [] f = "date-time" -> [val |-> << "time.Time" >>, err |-> Nil]
           [] f = "json" -> [val |-> << "json.RawMessage" >>, err |-> Nil]
           [] f = "uuid" -> [val |-> << "openapi_types.UUID" >>, err |-> Nil]
           [] OTHER -> [val |-> << "string" >>, err |-> Nil]
    [] OTHER -> [val |-> << >>, err |-> << "unhandled Schema type" >>]

\* resolveGoType(f, t): the Go type, or the error.
resolveGoType(f, t) ==
  CASE t = "array" -> [val |-> << "array" >>, err |-> Nil]
    [] t = "integer" ->
         IF f \in { "int64", "int32", "int16", "int8", "int",
                    "uint64", "uint32", "uint16", "uint8", "uint" }
         THEN [val |-> << f >>, err |-> Nil]
         ELSE IF f = "" THEN [val |-> << "int" >>, err |-> Nil]
         ELSE [val |-> << >>, err |-> << "invalid integer format" >>]
    [] t = "number" ->
         IF f = "double" THEN [val |-> << "float64" >>, err |-> Nil]
         ELSE IF f \in { "float", "" } THEN [val |-> << "float32" >>, err |-> Nil]
         ELSE [val |-> << >>, err |-> << "invalid number format" >>]
    [] t = "boolean" ->
         IF f # "" THEN [val |-> << >>, err |-> << "invalid format for boolean" >>]
         ELSE [val |-> << "bool" >>, err |-> Nil]
    [] t = "string" ->
         CASE f = "byte" -> [val |-> << "[]byte" >>, err |-> Nil]
           [] f = "email" -> [val |-> << "openapi_types.Email" >>, err |-> Nil]
           [] f = "date" -> [val |-> << "openapi_types.Date" >>, err |-> Nil]
           [] f = "date-time" -> [val |-> << "time.Time" >>, err |-> Nil]
           [] f = "json" -> [val |-> << "json.RawMessage" >>, err |-> Nil]
           [] f = "uuid" -> [val |-> << "openapi_types.UUID" >>, err |-> Nil]
           [] OTHER -> [val |-> << "string" >>, err |-> Nil]
    [] OTHER -> [val |-> << >>, err |-> << "unhandled Schema type" >>]

\* SanitizeEnumNames as one function: the map from identifier to name, or
\* the panic of SanitizeGoIdentity.
RECURSIVE sanitizeLoop(_, _, _, _)
sanitizeLoop(names, i, dups, out) ==
  IF i > Len(names) THEN Ok(out)
  ELSE LET sanitized == Sanitized(names[i], HasMultiWord(names))
       IN  IF sanitized.err # "" THEN sanitized
           ELSE sanitizeLoop(names, i + 1, Increment(dups, sanitized.val),
                             MapSet(out, EnumKey(sanitized.val, dups), names[i]))

SanitizeEnumNames(names) == sanitizeLoop(DeDup(names, 1, {}), 1, << >>, << >>)

\* An order in which a range loop may visit the keys of a map: the runtime
\* fixes none.  Two are modelled, the keys ascending and descending.
MapOrders == { "ascending", "descending" }

RECURSIVE KeysInOrder(_, _)
KeysInOrder(ks, order) ==
  IF ks = {} THEN << >>
  ELSE LET k == CHOOSE x \in ks : \A y \in ks \ { x } :
                  IF order = "ascending" THEN StrLess(x, y) ELSE StrLess(y, x)
       IN  << k >> \o KeysInOrder(ks \ { k }, order)

\* Property.GoFieldName and Property.GoTypeDef.
GoFieldName(p) == SchemaNameToTypeName(p.JsonFieldName)

GoTypeDef(p) ==
  IF ~p.Schema.SkipOptionalPointer /\ (~p.Required \/ p.Nullable \/ p.ReadOnly \/ p.WriteOnly)
  THEN << "*" >> \o TypeDecl(p.Schema)
  ELSE TypeDecl(p.Schema)

\* One field of GenFieldsFromProperties, for a property that has none of
\* the field-name, omit-empty and extra-tags extensions.
GenField(props, i) ==
  LET p == props[i]
      comment == IF p.Description # << >>
                 THEN (IF i # 1 THEN << "\n" >> ELSE << >>)
                      \o StringToGoComment(p.Description) \o << "\n" >>
                 ELSE << >>
      json == IF (p.Required /\ ~p.ReadOnly /\ ~p.WriteOnly) \/ p.Nullable
              THEN p.JsonFieldName
              ELSE p.JsonFieldName \o << ",omitempty" >>
  IN  comment \o << "    " >> \o GoFieldName(p) \o << " " >> \o GoTypeDef(p)
        \o << "U+0060", "json:\"" >> \o json \o << "\"", "U+0060" >>

GenFieldsFromProperties(props) == [i \in DOMAIN props |-> GenField(props, i)]

GenStructFromSchema(schema) ==
  LET addPropsType == IF schema.AdditionalPropertiesType[1].RefType # << >>
                      THEN schema.AdditionalPropertiesType[1].RefType
                      ELSE schema.AdditionalPropertiesType[1].GoType
      objectParts ==
        << << "struct {" >> >>
          \o GenFieldsFromProperties(schema.Properties)
          \o (IF schema.HasAdditionalProperties
              THEN << << "AdditionalProperties map[string]" >> \o addPropsType
                        \o << " ", "U+0060", "json:\"-\"", "U+0060" >> >>
              ELSE << >>)
          \o << << "}" >> >>
  IN  Join(objectParts, << "\n" >>)

\* The deepest nesting of GenerateGoSchema calls the stack has room for.
MaxCallDepth == 5

\* A result (Schema, error) of the compiler with the caller's path.
Result(s, err, e) == [s |-> s, err |-> err, e |-> e]

\* Property of schema.go, as generateProperties fills it.
NewProperty(pName, pSchema, required, value) ==
  [Description |-> value.Description, JsonFieldName |-> pName, Schema |-> pSchema,
   Required |-> required, Nullable |-> value.Nullable, ReadOnly |-> value.ReadOnly,
   WriteOnly |-> value.WriteOnly, ExtensionProps |-> value.Extensions]

TypeDefinition(typeName, jsonName, schema) ==
  [TypeName |-> typeName, JsonName |-> jsonName, Schema |-> schema]

\* The loop of generateEnumValues over the keys ks[i..] of sanitizedValues:
\* the EnumValues map and the path as the loop leaves them.  enumRound is
\* one round, after PathToTypeName has rewritten constNamePath to after.
RECURSIVE enumLoop(_, _, _, _, _)

enumRound(sanitizedValues, ks, i, pth, values, after) ==
  enumLoop(sanitizedValues, ks, i + 1, Written(pth, after),
           MapSet(values, SchemaNameToEnumValueName(Join(after, << "_" >>)),
                  sanitizedValues[ks[i]]))

enumLoop(sanitizedValues, ks, i, pth, values) ==
  IF i > Len(ks) THEN [values |-> values, pth |-> pth]
  ELSE enumRound(sanitizedValues, ks, i, pth, values,
                 PascalAll(AppendPath(pth, IF sanitizedValues[ks[i]] = << >>
                                           THEN << "E", "m", "p", "t", "y" >>
                                           ELSE ks[i]).e))

\* generateEnumValues for a path of more than one element, once
\* PathToTypeName(path) has rewritten the path to after: the type named
\* typeName is added for the enum.
generateEnumValues_Named(withValues, after, typeName) ==
  Result([withValues EXCEPT
            !.AdditionalTypes = Append(@, TypeDefinition(typeName, Join(after, << "." >>),
                                                         withValues)),
            !.RefType = typeName],
         Nil, after)

generateEnumValues_Typed(withValues, after) ==
  generateEnumValues_Named(withValues, after, SchemaNameToTypeName(Join(after, << "_" >>)))

\* generateEnumValues after its loop.
generateEnumValues_Looped(pth, outSchema, loop) ==
  IF Len(pth.e) > 1
  THEN generateEnumValues_Typed([outSchema EXCEPT !.EnumValues = loop.values],
                                PascalAll(loop.pth.e))
  ELSE Result([outSchema EXCEPT !.EnumValues = loop.values], Nil, loop.pth.e)

\* generateEnumValues after SanitizeEnumNames.
generateEnumValues_Sanitized(pth, outSchema, order, sanitizedValues) ==
  IF sanitizedValues.err # "" THEN Result(ZeroSchema, << sanitizedValues.err >>, pth.e)
  ELSE generateEnumValues_Looped(pth, outSchema,
                                 enumLoop(sanitizedValues.val,
                                          KeysInOrder(DOMAIN sanitizedValues.val, order),
                                          1, pth, << >>))

generateEnumValues(schema, pth, outSchema, order) ==
  IF Len(schema.Enum) = 0 THEN Result(outSchema, Nil, pth.e)
  ELSE generateEnumValues_Sanitized(pth, outSchema, order, SanitizeEnumNames(schema.Enum))

\* SchemaRef values: an inline schema, a reference to the component name by
\* the path ref, and the reference the loader makes of a component's name.
InlineRef(schema) == [Ref |-> << >>, Target |-> << >>, Inline |-> << schema >>]

RefWithPath(ref, name) == [Ref |-> ref, Target |-> name, Inline |-> << >>]

ComponentRef(name) == RefWithPath(<< "#", "/", "c", "o", "m", "p", "o", "n", "e", "n", "t", "s", "/", "s", "c", "h", "e", "m", "a", "s", "/" >> \o name, name)

\* Schemas of one type, and an object schema of the given properties.
Primitive(t, f) == [NoSchema EXCEPT !.Type = t, !.Format = f]

ObjectOf(props, required) ==
  [NoSchema EXCEPT !.Type = "object", !.Properties = props, !.Required = required]

Prop(name, sr) == [name |-> name, sref |-> sr]

\* The names of the document's components.
Pet == << "P", "e", "t" >>

Node == << "N", "o", "d", "e" >>

Base == << "B", "a", "s", "e" >>

Extra == << "E", "x", "t", "r", "a" >>

Extended == << "E", "x", "t", "e", "n", "d", "e", "d" >>

Repeated == << "R", "e", "p", "e", "a", "t", "e", "d" >>

Color == << "C", "o", "l", "o", "r" >>

Bag == << "B", "a", "g" >>

Wide == << "W", "i", "d", "e" >>

Either == << "E", "i", "t", "h", "e", "r" >>

\* The document's components: Value of a reference is Components(Target).
\* Node refers to itself, Extended composes Extra, whose property a has
\* another type than its own, Repeated composes Base, whose property a
\* is its own, Wide has a property of an unknown integer format, and Either
\* is an anyOf.
Components(name) ==
  CASE name = Pet ->
         ObjectOf(<< Prop(<< "n", "a", "m", "e" >>, InlineRef(Primitive("string", ""))),
                     Prop(<< "i", "d" >>, InlineRef(Primitive("integer", "int64"))) >>,
                  { << "i", "d" >> })
    [] name = Node ->
         ObjectOf(<< Prop(<< "v", "a", "l", "u", "e" >>, InlineRef(Primitive("string", ""))),
                     Prop(<< "n", "e", "x", "t" >>, ComponentRef(Node)) >>, {})
    [] name = Base ->
         ObjectOf(<< Prop(<< "a" >>, InlineRef(Primitive("string", ""))) >>, {})
    [] name = Extra ->
         ObjectOf(<< Prop(<< "a" >>, InlineRef(Primitive("integer", ""))) >>, {})
    [] name = Extended ->
         [ObjectOf(<< Prop(<< "a" >>, InlineRef(Primitive("string", ""))) >>, {})
            EXCEPT !.AllOf = << ComponentRef(Extra) >>]
    [] name = Repeated ->
         [ObjectOf(<< Prop(<< "a" >>, InlineRef(Primitive("string", ""))) >>, {})
            EXCEPT !.AllOf = << ComponentRef(Base) >>]
    [] name = Color ->
         [Primitive("string", "") EXCEPT !.Enum = << << "r", "e", "d" >>, << "R", "E", "D" >>, << >> >>,
                                         !.Description = << "a", " ", "c", "o", "l", "o", "r" >>]
    [] name = Bag ->
         [NoSchema EXCEPT !.Type = "object",
                          !.AdditionalProperties = << InlineRef(Primitive("integer", "")) >>]
    [] name = Either -> [NoSchema EXCEPT !.AnyOf = << ComponentRef(Pet) >>]
    [] name = Wide ->
         ObjectOf(<< Prop(<< "s", "i", "z", "e" >>, InlineRef(Primitive("integer", "int128"))) >>,
                  {})

\* SchemaRef.Value.
ValueOf(sr) == IF sr.Inline # << >> THEN sr.Inline[1] ELSE Components(sr.Target)

\* schema.Properties[pName], and the map's keys in iteration order.
PropertyNamed(schema, pName) ==
  schema.Properties[CHOOSE i \in DOMAIN schema.Properties : schema.Properties[i].name = pName].sref

PropertyKeys(schema) == [i \in DOMAIN schema.Properties |-> schema.Properties[i].name]

\* extTypeName: the type name an x-go-type extension holds, when it holds a
\* string.
extTypeName(extension) ==
  IF extension.isString THEN [val |-> extension.text, err |-> Nil]
  ELSE [val |-> << >>, err |-> << "failed to unmarshal json" >>]

\* The key of the type-override extension.
extPropGoType == "x-go-type"

\* AddProperty for each of new[i..] in turn, up to the first error.
RECURSIVE AddProperties(_, _, _)
AddProperties(props, new, i) ==
  IF i > Len(new) THEN [Properties |-> props, err |-> NoError]
  ELSE LET added == AddProperty(props, new[i])
       IN  IF added.err # NoError THEN added
           ELSE AddProperties(added.Properties, new, i + 1)

RECURSIVE GenerateGoSchema(_, _, _, _)
RECURSIVE generateProperties(_, _, _, _, _)
RECURSIVE propertiesLoop(_, _, _, _, _, _, _)
RECURSIVE resolveType(_, _, _, _, _)
RECURSIVE referenceLoop(_, _, _, _, _, _)
RECURSIVE MergeSchemas(_, _, _, _)
RECURSIVE mergeLoop(_, _, _, _, _, _)

\* The end of a round of the loop of generateProperties: the property is
\* appended, and the caller's path holds what propertyPath, now after, has
\* come to hold.
propertiesAppend(schema, ks, i, pth, outSchema, depth, order, pSchema, after) ==
  propertiesLoop(schema, ks, i + 1, Written(pth, after),
                 [outSchema EXCEPT !.Properties =
                    Append(@, NewProperty(ks[i], pSchema,
                                          StringInArray(ks[i], schema.Required),
                                          ValueOf(PropertyNamed(schema, ks[i]))))],
                 depth, order)

\* A property with additional properties and no type of its own gets a
\* type named after the path, which PathToTypeName has rewritten to after.
propertiesPromote(schema, ks, i, pth, outSchema, depth, order, pSchema, after) ==
  propertiesAppend(schema, ks, i, pth, outSchema, depth, order,
                   [pSchema EXCEPT
                      !.AdditionalTypes =
                         Append(@, TypeDefinition(Join(after, << "_" >>),
                                                  Join(after, << "." >>), pSchema)),
                      !.RefType = Join(after, << "_" >>)],
                   after)

\* One round of the loop of generateProperties, from the result r of
\* GenerateGoSchema on the property ks[i].
propertiesRound(schema, ks, i, pth, outSchema, depth, order, r) ==
  IF r.err = StackOverflow THEN Result(ZeroSchema, r.err, Written(pth, r.e).e)
  ELSE IF r.err # Nil
  THEN Result(ZeroSchema, Wrap("error generating Go schema for property", r.err),
              Written(pth, r.e).e)
  ELSE IF r.s.HasAdditionalProperties /\ r.s.RefType = << >>
  THEN propertiesPromote(schema, ks, i, pth, outSchema, depth, order, r.s, PascalAll(r.e))
  ELSE propertiesAppend(schema, ks, i, pth, outSchema, depth, order, r.s, r.e)

\* The loop of generateProperties over the sorted property names ks[i..].
propertiesLoop(schema, ks, i, pth, outSchema, depth, order) ==
  IF i > Len(ks) THEN Result(outSchema, Nil, pth.e)
  ELSE propertiesRound(schema, ks, i, pth, outSchema, depth, order,
                       GenerateGoSchema(<< PropertyNamed(schema, ks[i]) >>,
                                        AppendPath(pth, ks[i]), depth + 1, order))

\* generateProperties after GenerateGoSchema on schema.AdditionalProperties.
generateProperties_Additional(filled, additionalSchema) ==
  IF additionalSchema.err = StackOverflow
  THEN Result(ZeroSchema, additionalSchema.err, additionalSchema.e)
  ELSE IF additionalSchema.err # Nil
  THEN Result(ZeroSchema,
              Wrap("error generating type for additional properties", additionalSchema.err),
              additionalSchema.e)
  ELSE Result([filled EXCEPT !.AdditionalPropertiesType = << additionalSchema.s >>],
              Nil, additionalSchema.e)

\* generateProperties after its loop.
generateProperties_Looped(schema, pth, depth, order, looped) ==
  IF looped.err # Nil THEN looped
  ELSE IF schema.AdditionalProperties = << >>
  THEN Result([looped.s EXCEPT
                 !.HasAdditionalProperties = SchemaHasAdditionalProperties(schema),
                 !.AdditionalPropertiesType =
                    << [ZeroSchema EXCEPT !.GoType = << "interface{}" >>] >>],
              Nil, looped.e)
  ELSE generateProperties_Additional(
         [looped.s EXCEPT !.HasAdditionalProperties = SchemaHasAdditionalProperties(schema)],
         GenerateGoSchema(schema.AdditionalProperties, [pth EXCEPT !.e = looped.e],
                          depth + 1, order))

generateProperties(schema, pth, outSchema, depth, order) ==
  generateProperties_Looped(schema, pth, depth, order,
                            propertiesLoop(schema, SortedSchemaKeys(PropertyKeys(schema)), 1,
                                           pth, outSchema, depth, order))

\* resolveType on an array, from the result of GenerateGoSchema on Items.
resolveType_Array(outSchema, arrayType) ==
  IF arrayType.err = StackOverflow THEN Result(outSchema, arrayType.err, arrayType.e)
  ELSE IF arrayType.err # Nil
  THEN Result(outSchema, Wrap("error generating type for array", arrayType.err), arrayType.e)
  ELSE Result([outSchema EXCEPT !.ArrayType = << arrayType.s >>,
                                !.GoType = << "[]" >> \o TypeDecl(arrayType.s),
                                !.AdditionalTypes = arrayType.s.AdditionalTypes,
                                !.Properties = arrayType.s.Properties],
              Nil, arrayType.e)

\* resolveType after resolveGoType.
resolveType_Resolved(schema, pth, outSchema, depth, order, goType) ==
  IF goType.err # Nil THEN Result(outSchema, goType.err, pth.e)
  ELSE IF goType.val = << "array" >>
  THEN resolveType_Array(outSchema, GenerateGoSchema(schema.Items, pth, depth + 1, order))
  ELSE IF goType.val = << "json.RawMessage" >>
  THEN Result([outSchema EXCEPT !.SkipOptionalPointer = TRUE, !.GoType = goType.val],
              Nil, pth.e)
  ELSE Result([outSchema EXCEPT !.GoType = goType.val], Nil, pth.e)

resolveType(schema, pth, outSchema, depth, order) ==
  resolveType_Resolved(schema, pth, outSchema, depth, order,
                       resolveGoType(schema.Format, schema.Type))

\* The loop of the reference branch over schemas[i..]: the properties and
\* enum values of each schema are generated onto a copy of outSchema, new,
\* and then appended to outSchema.
referenceMerge(schemas, i, pth, outSchema, depth, order, new) ==
  IF new.err # Nil THEN Result(ZeroSchema, new.err, new.e)
  ELSE referenceLoop(schemas, i + 1, [pth EXCEPT !.e = new.e],
                     [outSchema EXCEPT !.Properties = @ \o new.s.Properties,
                                       !.EnumValues = new.s.EnumValues @@ @],
                     depth, order)

referenceRound(schemas, i, pth, outSchema, depth, order, withProperties) ==
  IF withProperties.err # Nil THEN Result(ZeroSchema, withProperties.err, withProperties.e)
  ELSE referenceMerge(schemas, i, pth, outSchema, depth, order,
                      generateEnumValues(schemas[i], [pth EXCEPT !.e = withProperties.e],
                                         withProperties.s, order))

referenceLoop(schemas, i, pth, outSchema, depth, order) ==
  IF i > Len(schemas) THEN Result(outSchema, Nil, pth.e)
  ELSE referenceRound(schemas, i, pth, outSchema, depth, order,
                      generateProperties(schemas[i], pth, outSchema, depth, order))

\* The loop of MergeSchemas over allOf[i..]: each schema is compiled with
\* the same path and its properties added with AddProperty; open properties
\* are kept from the first schema that has them.
mergeAdded(allOf, i, pth, outSchema, depth, order, r, added) ==
  IF added.err # NoError
  THEN Result(ZeroSchema, << "error merging properties", added.err.kind >>, r.e)
  ELSE mergeLoop(allOf, i + 1, [pth EXCEPT !.e = r.e],
                 [outSchema EXCEPT
                    !.Properties = added.Properties,
                    !.EnumValues = r.s.EnumValues @@ @,
                    !.HasAdditionalProperties = @ \/ r.s.HasAdditionalProperties,
                    !.AdditionalPropertiesType =
                       IF outSchema.HasAdditionalProperties \/ ~r.s.HasAdditionalProperties
                       THEN @ ELSE r.s.AdditionalPropertiesType],
                 depth, order)

mergeRound(allOf, i, pth, outSchema, depth, order, r) ==
  IF r.err # Nil THEN Result(ZeroSchema, r.err, r.e)
  ELSE mergeAdded(allOf, i, pth, outSchema, depth, order, r,
                  AddProperties(outSchema.Properties, r.s.Properties, 1))

mergeLoop(allOf, i, pth, outSchema, depth, order) ==
  IF i > Len(allOf) THEN Result(outSchema, Nil, pth.e)
  ELSE mergeRound(allOf, i, pth, outSchema, depth, order,
                  GenerateGoSchema(<< allOf[i] >>, pth, depth + 1, order))

\* The result of generateProperties or of the merge loop, rendered as a
\* struct: outSchema.GoType = GenStructFromSchema(outSchema).
WithStruct(generated) ==
  IF generated.err # Nil THEN generated
  ELSE Result([generated.s EXCEPT !.GoType = GenStructFromSchema(generated.s)],
              Nil, generated.e)

MergeSchemas(allOf, pth, depth, order) ==
  WithStruct(mergeLoop(allOf, 1, pth, ZeroSchema, depth, order))

\* The reference branch of GenerateGoSchema, after RefPathToGoType.
GenerateGoSchema_Resolved(schema, pth, depth, order, refType) ==
  IF refType.err # ""
  THEN Result(ZeroSchema, << "error turning reference into a Go type", refType.err >>, pth.e)
  ELSE referenceLoop(<< schema >> \o [i \in DOMAIN schema.AllOf |-> ValueOf(schema.AllOf[i])],
                     1, pth,
                     [ZeroSchema EXCEPT
                        !.GoType = refType.val,
                        !.Description = StringToGoComment(schema.Description),
                        !.RefGoType = resolveGoType(schema.Format, schema.Type).val],
                     depth, order)

\* The reference branch of GenerateGoSchema.
GenerateGoSchema_Reference(sr, schema, pth, depth, order) ==
  GenerateGoSchema_Resolved(schema, pth, depth, order, RefPathToGoType(sr.Ref, importMapping))

\* The allOf branch of GenerateGoSchema, after MergeSchemas.
GenerateGoSchema_Merged(merged) ==
  IF merged.err = StackOverflow \/ merged.err = Nil THEN merged
  ELSE Result(ZeroSchema, Wrap("error merging schemas", merged.err), merged.e)

\* The x-go-type branch of GenerateGoSchema, after extTypeName.
GenerateGoSchema_Override(pth, outSchema, typeName) ==
  IF typeName.err # Nil
  THEN Result(outSchema, Wrap("invalid value for x-go-type", typeName.err), pth.e)
  ELSE Result([outSchema EXCEPT !.GoType = typeName.val], Nil, pth.e)

\* The object branch of GenerateGoSchema: t is "" or "object".
GenerateGoSchema_Object(schema, pth, outSchema, depth, order) ==
  IF Len(schema.Properties) = 0 /\ ~SchemaHasAdditionalProperties(schema)
  THEN Result([outSchema EXCEPT !.GoType = IF schema.Type = "object"
                                           THEN << "map[string]interface{}" >>
                                           ELSE << "interface{}" >>],
              Nil, pth.e)
  ELSE WithStruct(generateProperties(schema, pth, outSchema, depth, order))

\* The enum and primitive branches with the error of resolveType dropped.
GenerateGoSchema_Typed_Recovered(schema, pth, order, resolved) ==
  Result(resolved.s, Nil, resolved.e)

\* The enum and primitive branches of GenerateGoSchema, after resolveType.
GenerateGoSchema_Typed(schema, pth, order, resolved) ==
  IF resolved.err = StackOverflow THEN Result(ZeroSchema, resolved.err, resolved.e)
  ELSE IF resolved.err # Nil
  THEN Result(ZeroSchema, Wrap("error resolving primitive type", resolved.err), resolved.e)
  ELSE IF Len(schema.Enum) > 0
  THEN generateEnumValues(schema, [pth EXCEPT !.e = resolved.e], resolved.s, order)
  ELSE resolved

GenerateGoSchema_Primitive(schema, pth, outSchema, depth, order) ==
  GenerateGoSchema_Typed(schema, pth, order, resolveType(schema, pth, outSchema, depth, order))

\* GenerateGoSchema on a SchemaRef that is not nil, with allOf looked at
\* before anyOf and oneOf.
GenerateGoSchema_Value_AllOfFirst(sr, schema, pth, outSchema, depth, order) ==
  IF IsGoTypeReference(sr.Ref) THEN GenerateGoSchema_Reference(sr, schema, pth, depth, order)
  ELSE IF schema.AllOf # << >>
  THEN GenerateGoSchema_Merged(MergeSchemas(schema.AllOf, pth, depth, order))
  ELSE IF schema.AnyOf # << >> \/ schema.OneOf # << >>
  THEN Result([outSchema EXCEPT !.GoType = << "interface{}" >>], Nil, pth.e)
  ELSE IF extPropGoType \in DOMAIN schema.Extensions
  THEN GenerateGoSchema_Override(pth, outSchema, extTypeName(schema.Extensions[extPropGoType]))
  ELSE IF schema.Type \in { "", "object" }
  THEN GenerateGoSchema_Object(schema, pth, outSchema, depth, order)
  ELSE GenerateGoSchema_Primitive(schema, pth, outSchema, depth, order)

\* GenerateGoSchema on a SchemaRef that is not nil; schema is its Value.
GenerateGoSchema_Value(sr, schema, pth, outSchema, depth, order) ==
  IF IsGoTypeReference(sr.Ref) THEN GenerateGoSchema_Reference(sr, schema, pth, depth, order)
  ELSE IF schema.AnyOf # << >>
  THEN Result([outSchema EXCEPT !.GoType = << "interface{}" >>], Nil, pth.e)
  ELSE IF schema.OneOf # << >>
  THEN Result([outSchema EXCEPT !.GoType = << "interface{}" >>], Nil, pth.e)
  ELSE IF schema.AllOf # << >>
  THEN GenerateGoSchema_Merged(MergeSchemas(schema.AllOf, pth, depth, order))
  ELSE IF extPropGoType \in DOMAIN schema.Extensions
  THEN GenerateGoSchema_Override(pth, outSchema, extTypeName(schema.Extensions[extPropGoType]))
  ELSE IF schema.Type \in { "", "object" }
  THEN GenerateGoSchema_Object(schema, pth, outSchema, depth, order)
  ELSE GenerateGoSchema_Primitive(schema, pth, outSchema, depth, order)

\* GenerateGoSchema(sref, path), called at the nesting depth: a call nested
\* deeper than the stack has room for ends the program.
GenerateGoSchema(srefOpt, pth, depth, order) ==
  IF depth > MaxCallDepth THEN Result(ZeroSchema, StackOverflow, pth.e)
  ELSE IF srefOpt = << >>
  THEN Result([ZeroSchema EXCEPT !.GoType = << "interface{}" >>], Nil, pth.e)
  ELSE GenerateGoSchema_Value(srefOpt[1], ValueOf(srefOpt[1]), pth,
                              [ZeroSchema EXCEPT !.Description =
                                 StringToGoComment(ValueOf(srefOpt[1]).Description)],
                              depth, order)

\* The schemas GenerateGoSchema is called on: nil, the primitive types
\* with good and bad formats, arrays, objects, enums, compositions, type
\* overrides, and references to the components, well-formed and not.
InlineRoots ==
  { InlineRef(Primitive("string", "")),
    InlineRef(Primitive("string", "json")),
    InlineRef(Primitive("integer", "int32")),
    InlineRef(Primitive("integer", "int128")),
    InlineRef(Primitive("number", "double")),
    InlineRef(Primitive("boolean", "yes")),
    InlineRef(Primitive("null", "")),
    InlineRef(Primitive("array", "")),
    InlineRef([Primitive("array", "") EXCEPT !.Items = << InlineRef(Primitive("string", "")) >>]),
    InlineRef([Primitive("array", "") EXCEPT !.Items = << ComponentRef(Pet) >>]),
    InlineRef([Primitive("array", "") EXCEPT !.Items = << InlineRef(Primitive("integer", "int128")) >>]),
    InlineRef(NoSchema),
    InlineRef(Primitive("object", "")),
    InlineRef([Primitive("string", "") EXCEPT !.Enum = << << "r", "e", "d" >>, << "R", "E", "D" >> >>]),
    InlineRef([Primitive("integer", "") EXCEPT !.Enum = << << "1" >>, << "2" >> >>,
                                               !.Description = << "a", " ", "c", "o", "u", "n", "t" >>]),
    InlineRef([NoSchema EXCEPT !.AnyOf = << ComponentRef(Pet) >>, !.AllOf = << ComponentRef(Base) >>]),
    InlineRef([NoSchema EXCEPT !.OneOf = << ComponentRef(Pet) >>]),
    InlineRef([Primitive("integer", "int128") EXCEPT
                 !.AnyOf = << ComponentRef(Pet) >>,
                 !.AllOf = << ComponentRef(Base), ComponentRef(Extra) >>,
                 !.Extensions = extPropGoType :> [isString |-> FALSE, text |-> << >>],
                 !.Properties = << Prop(<< "s", "i", "z", "e" >>,
                                        InlineRef(Primitive("integer", "int128"))) >>,
                 !.Enum = << << "1" >> >>,
                 !.Description = << "a", "n", "y" >>]),
    InlineRef([Primitive("integer", "int128") EXCEPT
                 !.OneOf = << ComponentRef(Pet) >>,
                 !.AllOf = << ComponentRef(Base), ComponentRef(Extra) >>,
                 !.Extensions = extPropGoType :> [isString |-> FALSE, text |-> << >>],
                 !.Properties = << Prop(<< "s", "i", "z", "e" >>,
                                        InlineRef(Primitive("integer", "int128"))) >>,
                 !.Enum = << << "1" >> >>]),
    InlineRef([Primitive("integer", "int128") EXCEPT
                 !.AllOf = << ComponentRef(Base) >>,
                 !.Extensions = extPropGoType :> [isString |-> FALSE, text |-> << >>]]),
    InlineRef([Primitive("object", "") EXCEPT
                 !.Extensions = extPropGoType :> [isString |-> TRUE, text |-> << "T" >>],
                 !.Properties = << Prop(<< "s", "i", "z", "e" >>,
                                        InlineRef(Primitive("integer", "int128"))) >>,
                 !.Enum = << << "1" >> >>]),
    InlineRef([Primitive("object", "") EXCEPT
                 !.Properties = << Prop(<< "i", "d" >>, InlineRef(Primitive("integer", ""))) >>,
                 !.Enum = << << "1" >> >>]),
    InlineRef([NoSchema EXCEPT !.AllOf = << ComponentRef(Base), ComponentRef(Pet) >>]),
    InlineRef([NoSchema EXCEPT !.AllOf = << ComponentRef(Base), ComponentRef(Extra) >>]),
    InlineRef([NoSchema EXCEPT !.AllOf = << ComponentRef(Base), ComponentRef(Bag) >>]),
    InlineRef([NoSchema EXCEPT !.Extensions =
                 extPropGoType :> [isString |-> TRUE, text |-> << "t", "i", "m", "e", ".", "D", "u", "r", "a", "t", "i", "o", "n" >>]]),
    InlineRef([NoSchema EXCEPT !.Extensions =
                 extPropGoType :> [isString |-> FALSE, text |-> << >>]]) }

ObjectRoots ==
  { InlineRef(ObjectOf(<< Prop(<< "i", "d" >>, InlineRef(Primitive("integer", ""))),
                          Prop(<< "I", "D" >>, InlineRef(Primitive("string", ""))) >>, { << "i", "d" >> })),
    InlineRef(ObjectOf(<< Prop(<< "I", "D" >>, InlineRef(Primitive("string", ""))),
                          Prop(<< "i", "d" >>, InlineRef(Primitive("integer", ""))) >>, { << "i", "d" >> })),
    InlineRef(ObjectOf(<< Prop(<< "t", "a", "g", "s" >>, InlineRef(Components(Bag))),
                          Prop(<< "p", "e", "t" >>, ComponentRef(Pet)) >>, {})),
    InlineRef(ObjectOf(<< Prop(<< "t", "a", "g", "s" >>, ComponentRef(Bag)) >>, {})),
    InlineRef(ObjectOf(<< Prop(<< "h", "u", "e" >>, InlineRef(Components(Color))) >>, { << "h", "u", "e" >> })),
    InlineRef(ObjectOf(<< Prop(<< "s", "i", "z", "e" >>, InlineRef(Primitive("integer", "int128"))) >>, {})),
    InlineRef(ObjectOf(<< Prop(<< "h", "e", "a", "d" >>, ComponentRef(Node)) >>, {})),
    InlineRef([Primitive("object", "") EXCEPT !.AdditionalPropertiesAllowed = << TRUE >>]),
    InlineRef([Primitive("object", "") EXCEPT
                 !.AdditionalProperties = << InlineRef(Primitive("integer", "int128")) >>]),
    InlineRef([Primitive("object", "") EXCEPT
                 !.AdditionalProperties =
                    << InlineRef([Primitive("string", "") EXCEPT
                                    !.Enum = << << "r", "e", "d" >>, << "R", "E", "D" >> >>]) >>]),
    InlineRef(Components(Bag)) }

ReferenceRoots ==
  { ComponentRef(Pet), ComponentRef(Node), ComponentRef(Base), ComponentRef(Extended),
    ComponentRef(Repeated), ComponentRef(Color), ComponentRef(Bag), ComponentRef(Wide),
    ComponentRef(Either),
    RefWithPath(<< "#", "/", "P", "e", "t" >>, Pet),
    RefWithPath(<< "o", "t", "h", "e", "r", ".", "y", "a", "m", "l", "#", "/", "c", "o", "m", "p", "o", "n", "e", "n", "t", "s", "/", "s", "c", "h", "e", "m", "a", "s", "/", "P", "e", "t" >>, Pet),
    RefWithPath(<< "o", "t", "h", "e", "r", ".", "y", "a", "m", "l" >>, Pet) }

\* The path slices GenerateGoSchema is called with: none to two elements,
\* in an array that is full or has room left.
Paths ==
  { [e |-> << >>, cap |-> 0],
    [e |-> << << "s", "h", "o", "p" >> >>, cap |-> 1],
    [e |-> << << "s", "h", "o", "p" >> >>, cap |-> 2],
    [e |-> << << "s", "h", "o", "p" >>, << "i", "t", "e", "m" >> >>, cap |-> 2],
    [e |-> << << "s", "h", "o", "p" >>, << "i", "t", "e", "m" >> >>, cap |-> 4] }

InitGen ==
  /\ pc = "start"
  /\ sref \in { << >> } \cup { << r >> : r \in InlineRoots \cup ObjectRoots \cup ReferenceRoots }
  /\ path \in Paths
  /\ genOut = << >>
  /\ SortIdle /\ RefIdle /\ IdentIdle /\ EnumIdle /\ PropsIdle /\ NameIdle /\ TypeIdle

\* One call of GenerateGoSchema(sref, path) under the empty import mapping:
\* genOut is what it returns, and path holds its elements after the call.
\* A call that exhausts the stack ends the program.
CallGenerateGoSchema ==
  /\ pc = "start"
  /\ \E order \in MapOrders :
       /\ genOut' = GenerateGoSchema(sref, path, 1, order)
       /\ path' = [path EXCEPT !.e = genOut'.e]
       /\ pc' = IF genOut'.err = StackOverflow THEN "crashed" ELSE "done"
  /\ UNCHANGED << sref, sortVars, refVars, identVars, enumVars, propsVars, nameVars, typeVars >>

NextGen == CallGenerateGoSchema

SpecGen == InitGen /\ [][NextGen]_vars

\* C1: every call of GenerateGoSchema returns, a call on a schema that
\* refers to itself included: the recursion through generateProperties ends
\* at a reference and never exhausts the stack.
C1_CyclicSchemaTerminates == pc # "crashed"

\* The schemas a reference to a component composes: the component and the
\* members of its allOf list; and the properties they declare, one after
\* the other.
ComposedSet(sr) ==
  << ValueOf(sr) >> \o [i \in DOMAIN ValueOf(sr).AllOf |-> ValueOf(ValueOf(sr).AllOf[i])]

RECURSIVE DeclaredProperties(_, _)
DeclaredProperties(schemas, i) ==
  IF i > Len(schemas) THEN << >>
  ELSE generateProperties(schemas[i], path, ZeroSchema, 1, "ascending").s.Properties
         \o DeclaredProperties(schemas, i + 1)

\* Two of the properties have one name and differ in their rendered type
\* or their required flag.
Conflicting(props) ==
  \E k, l \in DOMAIN props :
    props[k].JsonFieldName = props[l].JsonFieldName /\ ~PropertiesEqual(props[k], props[l])

\* C3: GenerateGoSchema on a reference whose schema has an allOf list and
\* whose composed set declares a property twice with different types or
\* required flags returns an error, not a node.
C3_ReferenceCompositionConflictFails ==
  (/\ pc = "done"
   /\ sref # << >>
   /\ IsGoTypeReference(sref[1].Ref)
   /\ ValueOf(sref[1]).AllOf # << >>
   /\ Conflicting(DeclaredProperties(ComposedSet(sref[1]), 1))) => genOut.err # Nil

(***************************************************************************)
(* Type names: SchemaNameToTypeName (utils.go)                             *)
(***************************************************************************)

\* The longest schema name tried, and the runes names are built from: a
\* letter of each case, a digit, and separators and symbols.
MaxNameLen == 3

NameAlphabet == { "a", "B", "1", "_", " ", "$", "-" }

InitName ==
  /\ pc = "start"
  /\ schemaName \in SeqsUpTo(NameAlphabet, MaxNameLen)
  /\ typeNameOut = << >>
  /\ SortIdle /\ RefIdle /\ IdentIdle /\ EnumIdle /\ PropsIdle /\ GenIdle /\ TypeIdle

\* One call of SchemaNameToTypeName.
CallSchemaNameToTypeName ==
  /\ pc = "start"
  /\ typeNameOut' = SchemaNameToTypeName(schemaName)
  /\ pc' = "done"
  /\ UNCHANGED << schemaName, sortVars, refVars, identVars, enumVars, propsVars, genVars,
                  typeVars >>

NextName == CallSchemaNameToTypeName

SpecName == InitName /\ [][NextName]_vars

\* C11: for every non-empty schema name SchemaNameToTypeName returns a
\* valid Go type name: a non-empty string of letters and digits that does
\* not begin with a digit.
C11_TypeNameIsValid ==
  (pc = "done" /\ schemaName # << >>) =>
    /\ typeNameOut # << >>
    /\ \A i \in DOMAIN typeNameOut : IsLetter(typeNameOut[i]) \/ IsDigit(typeNameOut[i])
    /\ ~IsDigit(typeNameOut[1])

(***************************************************************************)
(* Properties of GenerateGoSchema                                          *)
(***************************************************************************)

\* Whether GenerateGoSchema on sr, at nesting depth d, calls resolveGoType
\* on a (format, type) that it has no Go type for: in resolveType, for a
\* primitive, enum or array node, at sr or below it; and, when atReference
\* is TRUE, also in the reference branch, on the referenced schema.
RECURSIVE TypeFails(_, _, _)

PropertiesFail(schema, d, atReference) ==
  \/ \E i \in DOMAIN schema.Properties :
       TypeFails(schema.Properties[i].sref, d + 1, atReference)
  \/ /\ schema.AdditionalProperties # << >>
     /\ TypeFails(schema.AdditionalProperties[1], d + 1, atReference)

TypeFailsIn(sr, schema, d, atReference) ==
  IF IsGoTypeReference(sr.Ref)
  THEN /\ RefPathToGoType(sr.Ref, importMapping).err = ""
       /\ \/ atReference /\ resolveGoType(schema.Format, schema.Type).err # Nil
          \/ PropertiesFail(schema, d, atReference)
          \/ \E i \in DOMAIN schema.AllOf :
               PropertiesFail(ValueOf(schema.AllOf[i]), d, atReference)
  ELSE IF schema.AnyOf # << >> \/ schema.OneOf # << >> THEN FALSE
  ELSE IF schema.AllOf # << >>
  THEN \E i \in DOMAIN schema.AllOf : TypeFails(schema.AllOf[i], d + 1, atReference)
  ELSE IF extPropGoType \in DOMAIN schema.Extensions THEN FALSE
  ELSE IF schema.Type \in { "", "object" } THEN PropertiesFail(schema, d, atReference)
  ELSE \/ resolveGoType(schema.Format, schema.Type).err # Nil
       \/ /\ schema.Type = "array" /\ schema.Items # << >>
          /\ TypeFails(schema.Items[1], d + 1, atReference)

TypeFails(sr, d, atReference) ==
  IF d > MaxCallDepth THEN FALSE ELSE TypeFailsIn(sr, ValueOf(sr), d, atReference)

C13_PathIsUnchanged == [][path'.e = path.e]_vars

\* GetAdditionalTypeDefs: the type definitions of the properties' schemas,
\* in order, and then the schema's own AdditionalTypes.
RECURSIVE GetAdditionalTypeDefs(_)
RECURSIVE additionalTypeDefsLoop(_, _)

additionalTypeDefsLoop(props, result) ==
  IF props = << >> THEN result
  ELSE additionalTypeDefsLoop(Tail(props), result \o GetAdditionalTypeDefs(Head(props).Schema))

GetAdditionalTypeDefs(s) == additionalTypeDefsLoop(s.Properties, << >>) \o s.AdditionalTypes

\* The type definitions held anywhere in a compiled schema: its own, those of
\* its properties' schemas, of its array element schema and of its
\* open-properties element schema, at any depth.
RECURSIVE ReachableTypeDefs(_)

ReachableTypeDefs(s) ==
  Range(s.AdditionalTypes)
    \cup UNION { ReachableTypeDefs(s.Properties[i].Schema) : i \in DOMAIN s.Properties }
    \cup UNION { ReachableTypeDefs(s.ArrayType[i]) : i \in DOMAIN s.ArrayType }
    \cup UNION { ReachableTypeDefs(s.AdditionalPropertiesType[i]) :
                   i \in DOMAIN s.AdditionalPropertiesType }

\* C14: GetAdditionalTypeDefs on the schema GenerateGoSchema returned holds
\* every type definition reachable from it, through properties, the array
\* element schema and the open-properties element schema.
C14_AllTypeDefsReturned ==
  (pc = "done" /\ genOut.err = Nil) =>
    ReachableTypeDefs(genOut.s) \subseteq Range(GetAdditionalTypeDefs(genOut.s))

\* TypeDefinition.CanAlias: the schema is a reference, or an array of one.
CanAlias(t) ==
  \/ t.Schema.RefType # << >>
  \/ t.Schema.ArrayType # << >> /\ t.Schema.ArrayType[1].RefType # << >>

\* The node is a reference, or an inline array node whose items are one.
ReferenceShaped(sr) ==
  \/ IsGoTypeReference(sr.Ref)
  \/ /\ sr.Ref = << >>
     /\ ValueOf(sr).Type = "array"
     /\ ValueOf(sr).AnyOf = << >> /\ ValueOf(sr).OneOf = << >> /\ ValueOf(sr).AllOf = << >>
     /\ extPropGoType \notin DOMAIN ValueOf(sr).Extensions
     /\ ValueOf(sr).Items # << >>
     /\ IsGoTypeReference(ValueOf(sr).Items[1].Ref)

\* C15: CanAlias holds of the type definition of a compiled schema exactly
\* when the node compiled was a reference or an array of reference items.
C15_CanAliasIffReference ==
  (pc = "done" /\ sref # << >> /\ genOut.err = Nil) =>
    (CanAlias(TypeDefinition(<< "T" >>, << "T" >>, genOut.s)) <=> ReferenceShaped(sref[1]))

\* No two properties of props have the same JsonFieldName.
UniqueFieldNames(props) ==
  \A i, j \in DOMAIN props : props[i].JsonFieldName = props[j].JsonFieldName => i = j

\* C16: the schema compiled from a reference node with a composition list
\* holds no two properties of the same JsonFieldName.
C16_FieldNamesAreUnique ==
  (/\ pc = "done" /\ sref # << >> /\ genOut.err = Nil
   /\ IsGoTypeReference(sref[1].Ref) /\ ValueOf(sref[1]).AllOf # << >>) =>
    UniqueFieldNames(genOut.s.Properties)

(***************************************************************************)
(* resolveGoType on its own (schema.go).                                   *)
(***************************************************************************)

\* The formats and types resolveGoType is called with: every one it knows
\* and some it does not.
Formats ==
  { "", "int64", "int32", "int16", "int8", "int", "uint64", "uint32", "uint16",
    "uint8", "uint", "double", "float", "byte", "email", "date", "date-time",
    "json", "uuid", "int128", "binary", "Int32" }

Types == { "array", "integer", "number", "boolean", "string", "object", "null", "" }

InitType ==
  /\ pc = "start"
  /\ formatArg \in Formats
  /\ typeArg \in Types
  /\ goTypeOut = << >>
  /\ SortIdle /\ RefIdle /\ IdentIdle /\ EnumIdle /\ PropsIdle /\ GenIdle /\ NameIdle

\* One call of resolveGoType(f, t).
CallResolveGoType ==
  /\ pc = "start"
  /\ goTypeOut' = resolveGoType(formatArg, typeArg)
  /\ pc' = "done"
  /\ UNCHANGED << formatArg, typeArg, sortVars, refVars, identVars, enumVars, propsVars,
                  genVars, nameVars >>

NextType == CallResolveGoType

SpecType == InitType /\ [][NextType]_vars

\* C17: resolveGoType returns an error exactly for an integer of a format
\* other than the ten integer formats and the empty one, a number of a
\* format other than double, float and the empty one, a boolean with a
\* format, and a type other than array, integer, number, boolean and
\* string.  A string never fails and is "string" under a format it does not
\* know; without a format an integer is int and a number is float32.
C17_ResolveGoTypeErrors ==
  pc = "done" =>
    /\ goTypeOut.err # Nil <=>
         \/ /\ typeArg = "integer"
            /\ formatArg \notin { "int64", "int32", "int16", "int8", "int", "uint64",
                                  "uint32", "uint16", "uint8", "uint", "" }
         \/ typeArg = "number" /\ formatArg \notin { "double", "float", "" }
         \/ typeArg = "boolean" /\ formatArg # ""
         \/ typeArg \notin { "array", "integer", "number", "boolean", "string" }
    /\ (typeArg = "string"
          /\ formatArg \notin { "byte", "email", "date", "date-time", "json", "uuid" })
         => goTypeOut.val = << "string" >>
    /\ (typeArg = "integer" /\ formatArg = "") => goTypeOut.val = << "int" >>
    /\ (typeArg = "number" /\ formatArg = "") => goTypeOut.val = << "float32" >>

\* A boolean with a format has been refused.
C17_Witness ==
  /\ pc = "done"
  /\ typeArg = "boolean" /\ formatArg = "binary"
  /\ goTypeOut.err # Nil

\* C18: a property that generateProperties promoted has, among the
\* AdditionalTypes of its schema, a TypeDefinition whose JsonName is the
\* path and the property name as the caller gave them, joined with dots,
\* and whose TypeName is the same names in Pascal case, joined with
\* underscores; the RefType of the property's schema is that TypeName.
C18_PromotedTypeKeepsSourceName ==
  [][ (/\ pc' = "done" /\ sref # << >> /\ genOut'.err = Nil
       /\ sref[1].Ref = << >>
       /\ ValueOf(sref[1]).Type \in { "", "object" }
       /\ ValueOf(sref[1]).AllOf = << >>) =>
        \A i \in DOMAIN genOut'.s.Properties :
          genOut'.s.Properties[i].Schema.HasAdditionalProperties =>
            \E t \in Range(genOut'.s.Properties[i].Schema.AdditionalTypes) :
              /\ t.JsonName =
                   Join(Append(path.e, genOut'.s.Properties[i].JsonFieldName), << "." >>)
              /\ t.TypeName =
                   Join(PascalAll(Append(path.e, genOut'.s.Properties[i].JsonFieldName)),
                        << "_" >>)
              /\ genOut'.s.Properties[i].Schema.RefType = t.TypeName ]_vars

\* The schema GenerateGoSchema starts from for a node that is not a
\* reference: the description alone.
Described(schema) ==
  [ZeroSchema EXCEPT !.Description = StringToGoComment(schema.Description)]

\* What the rule that applies to an inline node requires of the result r of
\* a call under the path elements e: the rules in the order anyOf or oneOf,
\* allOf, type override, object or untyped, enum, primitive or array.
InlineRule(schema, r, e) ==
  IF schema.AnyOf # << >> \/ schema.OneOf # << >>
  THEN r = Result([Described(schema) EXCEPT !.GoType = << "interface{}" >>], Nil, e)
  ELSE IF schema.AllOf # << >>
  THEN r.err = Nil \/ Head(r.err) = "error merging schemas"
  ELSE IF extPropGoType \in DOMAIN schema.Extensions
  THEN /\ r.e = e
       /\ r.s.Properties = << >> /\ r.s.EnumValues = << >>
       /\ r.err = Nil \/ Head(r.err) = "invalid value for x-go-type"
  ELSE IF schema.Type \in { "", "object" }
  THEN r.err = Nil =>
         /\ r.s.EnumValues = << >>
         /\ Head(r.s.GoType) \in { "struct {", "map[string]interface{}", "interface{}" }
  ELSE /\ r.err = Nil => (r.s.EnumValues # << >> <=> schema.Enum # << >>)
       /\ r.err # Nil => Head(r.err) = "error resolving primitive type"

\* C19: an inline node with anyOf or oneOf compiles to interface{} with its
\* description, without error, and with the path untouched, whatever else
\* it carries; and the rules apply in the order absent node, reference,
\* anyOf or oneOf, allOf, type override, object or untyped, enum, primitive
\* or array.
C19_PriorityOrder ==
  [][ pc' = "done" =>
        IF sref = << >>
        THEN genOut' = Result([ZeroSchema EXCEPT !.GoType = << "interface{}" >>], Nil, path.e)
        ELSE IF IsGoTypeReference(sref[1].Ref)
        THEN genOut'.err = Nil =>
               genOut'.s.GoType = RefPathToGoType(sref[1].Ref, importMapping).val
        ELSE InlineRule(ValueOf(sref[1]), genOut', path.e) ]_vars

\* A node with anyOf and with an allOf that cannot be merged, a malformed
\* type override, a property and a format that cannot be compiled, and an
\* enum, has been compiled to interface{}.
C19_Witness ==
  /\ pc = "done" /\ sref # << >>
  /\ sref[1].Ref = << >>
  /\ ValueOf(sref[1]).AnyOf # << >>
  /\ Len(ValueOf(sref[1]).AllOf) = 2
  /\ extPropGoType \in DOMAIN ValueOf(sref[1]).Extensions
  /\ ValueOf(sref[1]).Properties # << >>
  /\ ValueOf(sref[1]).Enum # << >>
  /\ genOut.err = Nil
  /\ genOut.s.GoType = << "interface{}" >>

\* C20: SanitizeEnumNames loses no value: the map it returns has one entry
\* for each distinct name it was given, and the values of the map are those
\* names.
C20_EveryNameKept ==
  pc = "done" /\ deDup # << >> =>
    /\ Cardinality(DOMAIN sanitizedDeDup) = Cardinality(Range(enumNames))
    /\ Range(sanitizedDeDup) = Range(enumNames)

====
